---- MODULE Spec2Model ----
(***************************************************************************)
(* EstimNetDirected: the basic ERGM sampler (basicSampler.c), Algorithm S  *)
(* and the estimation driver (equilibriumExpectation.c) as state machines. *)
(*                                                                         *)
(* Real numbers (theta, ACA) are exact rationals <<num, den>>, den > 0,    *)
(* in lowest terms; den = 0 holds the non-finite doubles.  The comparison  *)
(* urand() < exp(total) is modelled by its possible outcomes: for          *)
(* total >= 0 the draw u < 1 <= exp(total) always accepts, for total < 0   *)
(* both outcomes occur for suitable u.                                     *)
(***************************************************************************)
EXTENDS Integers, Sequences, FiniteSets, TLC

(***************************************************************************)
(* Bounds of the model                                                     *)
(***************************************************************************)
\* number of nodes of the graphs without snowball zones
MaxNodes == 3
\* number of nodes of the snowball-sampled graphs (conditional estimation)
MaxSnowballNodes == 4
\* samplerSteps (proposals per sweep)
MaxSamplerM == 2
\* largest number of moves actually performed on the graph in one run
MaxMoves == 2

(***************************************************************************)
(* Rational arithmetic                                                     *)
(***************************************************************************)
Abs(x) == IF x < 0 THEN -x ELSE x

RECURSIVE GCD(_, _)
GCD(a, b) == IF b = 0 THEN a ELSE GCD(b, a % b)

\* <<n, d>> in lowest terms with d >= 0.  d = 0 holds the non-finite doubles:
\* <<1, 0>> is +infinity, <<-1, 0>> is -infinity and <<0, 0>> is NaN
RNorm(n, d) ==
    IF d = 0
    THEN <<IF n > 0 THEN 1 ELSE IF n < 0 THEN -1 ELSE 0, 0>>
    ELSE LET s == IF d < 0 THEN -1 ELSE 1
             g == GCD(Abs(n), Abs(d))
         IN  <<(s * n) \div g, (s * d) \div g>>

RInt(x) == <<x, 1>>
RPosInf == <<1, 0>>
RNaN == <<0, 0>>
RIsNaN(a) == a = RNaN
RIsFinite(a) == a[2] # 0
\* infinity + infinity of the same sign is that infinity; of opposite signs, NaN
RAdd(a, b) ==
    IF ~RIsFinite(a) /\ ~RIsFinite(b)
    THEN (IF a = b THEN a ELSE RNaN)
    ELSE RNorm(a[1] * b[2] + b[1] * a[2], a[2] * b[2])
\* infinity * 0 is NaN
RMul(a, b) ==
    LET g1 == GCD(Abs(a[1]), b[2])
        g2 == GCD(Abs(b[1]), a[2])
        h1 == IF g1 = 0 THEN 1 ELSE g1
        h2 == IF g2 = 0 THEN 1 ELSE g2
    IN  RNorm((a[1] \div h1) * (b[1] \div h2), (a[2] \div h2) * (b[2] \div h1))
\* 1 / b: 1 / 0 is +infinity, 1 / infinity is 0
RInv(b) == IF RIsNaN(b) THEN RNaN ELSE RNorm(b[2], b[1])
RDiv(a, b) == RMul(a, RInv(b))
RNeg(a) == <<-a[1], a[2]>>
\* a < b; FALSE when either is NaN
RLess(a, b) ==
    IF RIsNaN(a) \/ RIsNaN(b) THEN FALSE
    ELSE IF ~RIsFinite(a) /\ ~RIsFinite(b) THEN a[1] < b[1]
    ELSE a[1] * b[2] < b[1] * a[2]
RZero == RInt(0)

RECURSIVE RSum(_)
RSum(s) == IF s = <<>> THEN RZero ELSE RAdd(Head(s), RSum(Tail(s)))

(***************************************************************************)
(* State                                                                   *)
(***************************************************************************)
VARIABLES
    \* the digraph g and the configuration of the sampler
    num_nodes,                  \* g->num_nodes
    zone,                       \* g->zone[v], snowball zone of node v
    arcs,                       \* the arc set of g: ordered pairs <<i, j>>
    dupArcs,                    \* dyads on which insertArc was called while present
    useConditionalEstimation,
    forbidReciprocity,
    param_names,                \* names of the change statistics, in theta order
    \* the frame of basicSampler
    spc,                        \* position in basicSampler
    performMove,
    sampler_m,
    theta,
    i, j, isDelete,
    k, accepted,
    addChangeStats, delChangeStats,
    acceptance_rate,
    \* bookkeeping of the run (not program state)
    arcs0,                      \* the graph as loaded
    arcsBefore,                 \* the graph when the current dyad was selected
    lastOutcome,                \* "none", "accepted" or "rejected": last proposal
    moves,                      \* moves performed on the graph so far
    phase,                      \* which algorithm is calling the sampler
    \* the frame of algorithm_S
    alg,
    \* the frame of do_estimation
    drv

graphVars == <<num_nodes, zone, arcs, dupArcs>>
configVars == <<useConditionalEstimation, forbidReciprocity, param_names>>
samplerVars == <<spc, performMove, sampler_m, theta, i, j, isDelete, k, accepted,
                 addChangeStats, delChangeStats, acceptance_rate>>
historyVars == <<arcs0, arcsBefore, lastOutcome, moves, phase>>
vars == <<graphVars, configVars, samplerVars, historyVars, alg, drv>>

(***************************************************************************)
(* The digraph                                                             *)
(***************************************************************************)
Nodes == 0 .. (num_nodes - 1)
NodesOf(n) == 0 .. (n - 1)
DyadsOf(n) == {d \in NodesOf(n) \X NodesOf(n) : d[1] # d[2]}
Dyads == DyadsOf(num_nodes)

isArc(g, a, b) == <<a, b>> \in g
isArcIgnoreDirection(g, a, b) == isArc(g, a, b) \/ isArc(g, b, a)
insertArc(g, a, b) == g \cup {<<a, b>>}
removeArc(g, a, b) == g \ {<<a, b>>}

SetMax(S) == CHOOSE x \in S : \A y \in S : y <= x
max_zone == SetMax({zone[v] : v \in Nodes})
inner_nodes == {v \in Nodes : zone[v] < max_zone}
\* number of neighbours of v (ignoring arc direction) in the preceding zone
prev_wave_degree(g, v) ==
    Cardinality({u \in Nodes : isArcIgnoreDirection(g, u, v) /\ zone[u] = zone[v] - 1})

(***************************************************************************)
(* Change statistics: the change in the statistic when arc a -> b is added *)
(***************************************************************************)
changeArc(g, a, b) == 1
changeReciprocity(g, a, b) == IF isArc(g, b, a) THEN 1 ELSE 0
change_stats_funcs(name, g, a, b) ==
    IF name = "Arc" THEN changeArc(g, a, b) ELSE changeReciprocity(g, a, b)

\* attribute and dyadic effects, where the configuration lists any: the
\* attribute effect counts the senders that have the binary attribute, which
\* node 0 has; the dyadic covariate is 1 on every dyad
attr_change_stats_funcs(name, g, a, b) == IF a = 0 THEN 1 ELSE 0
dyadic_change_stats_funcs(name, g, a, b) == 1

attr_param_names ==
    IF "attr_param_names" \in DOMAIN drv THEN drv.attr_param_names ELSE <<>>
attr_names == IF "attr_names" \in DOMAIN drv THEN drv.attr_names ELSE <<>>
dyadic_param_names ==
    IF "dyadic_param_names" \in DOMAIN drv THEN drv.dyadic_param_names ELSE <<>>

n_struct == Len(param_names)
n_attr == Len(attr_param_names)
n_dyadic == Len(dyadic_param_names)

\* num_param: the length of theta and of the vectors of change statistics
n_params == n_struct + n_attr + n_dyadic

\* whether the IFD sampler is used instead of the basic sampler
useIFDsampler == "useIFDsampler" \in DOMAIN drv /\ drv.useIFDsampler
Zeros == [l \in 1 .. n_params |-> 0]

(***************************************************************************)
(* basicSampler: dyad selection                                            *)
(***************************************************************************)
\* (variant: the candidates are drawn from all the nodes)
CondCandidates_AllNodes == Nodes

\* the nodes the conditional selection draws from
CondCandidates == inner_nodes

\* the assertion on the drawn pair in conditional mode
CondAssertion(g, a, b) ==
    /\ zone[a] < max_zone /\ zone[b] < max_zone
    /\ (Abs(zone[a] - zone[b]) <= 1 \/ ~isArcIgnoreDirection(g, a, b))

\* (variant: the difference of the zones is not looked at)
CondRedraw_NoZoneCheck(g, a, b) ==
    /\ isArcIgnoreDirection(g, a, b)
    /\ \/ (zone[a] > zone[b] /\ prev_wave_degree(g, a) = 1)
       \/ (zone[b] > zone[a] /\ prev_wave_degree(g, b) = 1)

\* (variant: the last tie to the preceding wave is not protected)
CondRedraw_NoLastTie(g, a, b) == Abs(zone[a] - zone[b]) > 1

\* the while-condition of the conditional selection: TRUE means draw again
CondRedraw(g, a, b) ==
    \/ Abs(zone[a] - zone[b]) > 1
    \/ /\ isArcIgnoreDirection(g, a, b)
       /\ \/ (zone[a] > zone[b] /\ prev_wave_degree(g, a) = 1)
          \/ (zone[b] > zone[a] /\ prev_wave_degree(g, b) = 1)

\* isDelete when the conditional selection is left: the loop does not assign it
CondIsDelete(g, a, b, del) == del

\* isDelete as the unconditional selection assigns it
UncondIsDelete(g, a, b) == isArc(g, a, b)

\* (variant: a deletion is drawn again as well when the reverse arc exists)
UncondRedraw_AlsoDeletions(g, a, b, del) == forbidReciprocity /\ isArc(g, b, a)

\* (variant: the reverse arc is not looked at)
UncondRedraw_Never(g, a, b, del) == FALSE

\* the while-condition of the unconditional selection: TRUE means draw again
UncondRedraw(g, a, b, del) == forbidReciprocity /\ ~del /\ isArc(g, b, a)

\* One pass of the do-while of the selection: i, then j # i, then the test.
SelectConditional ==
    /\ spc = "select"
    /\ useConditionalEstimation
    /\ IF forbidReciprocity
       THEN /\ spc' = "assert_failed"
            /\ UNCHANGED <<i, j, isDelete>>
       ELSE \E a \in CondCandidates : \E b \in CondCandidates \ {a} :
              /\ i' = a
              /\ j' = b
              /\ isDelete' = CondIsDelete(arcs, a, b, isDelete)
              /\ spc' = IF ~CondAssertion(arcs, a, b) THEN "assert_failed"
                        ELSE IF CondRedraw(arcs, a, b) THEN "select"
                        ELSE "eval"
    /\ arcsBefore' = arcs
    /\ lastOutcome' = "none"
    /\ UNCHANGED <<graphVars, configVars, performMove, sampler_m, theta, k,
                   accepted, addChangeStats, delChangeStats, acceptance_rate,
                   arcs0, moves, phase, alg, drv>>

SelectUnconditional ==
    /\ spc = "select"
    /\ ~useConditionalEstimation
    /\ \E a \in Nodes : \E b \in Nodes \ {a} :
          /\ i' = a
          /\ j' = b
          /\ isDelete' = UncondIsDelete(arcs, a, b)
          /\ spc' = IF UncondRedraw(arcs, a, b, UncondIsDelete(arcs, a, b))
                    THEN "select" ELSE "eval"
    /\ arcsBefore' = arcs
    /\ lastOutcome' = "none"
    /\ UNCHANGED <<graphVars, configVars, performMove, sampler_m, theta, k,
                   accepted, addChangeStats, delChangeStats, acceptance_rate,
                   arcs0, moves, phase, alg, drv>>

(***************************************************************************)
(* basicSampler: change statistics of the selected dyad                    *)
(***************************************************************************)
\* the graph on which the change statistics are computed
GraphForChangeStats(g, a, b, del) == IF del THEN removeArc(g, a, b) ELSE g

\* changestats[param_i]: structural, then attribute, then dyadic effects
ChangeStatsOf(g, a, b) ==
    [l \in 1 .. n_params |->
        IF l <= n_params - n_attr - n_dyadic
        THEN change_stats_funcs(param_names[l], g, a, b)
        ELSE IF l <= n_params - n_dyadic
        THEN attr_change_stats_funcs(
                 attr_param_names[l - (n_params - n_attr - n_dyadic)], g, a, b)
        ELSE dyadic_change_stats_funcs(
                 dyadic_param_names[l - (n_params - n_dyadic)], g, a, b)]

\* sum over the effects of theta * (isDelete ? -1 : 1) * changestats
TotalOf(th, cs, del) ==
    RSum([l \in 1 .. n_params |->
            RMul(th[l], RInt((IF del THEN -1 ELSE 1) * cs[l]))])

\* the arc is removed for the computation when the proposal is a deletion
Evaluate ==
    /\ spc = "eval"
    /\ arcs' = GraphForChangeStats(arcs, i, j, isDelete)
    /\ spc' = "decide"
    /\ UNCHANGED <<num_nodes, zone, dupArcs, configVars, performMove, sampler_m,
                   theta, i, j, isDelete, k, accepted, addChangeStats,
                   delChangeStats, acceptance_rate, historyVars, alg, drv>>

(***************************************************************************)
(* basicSampler: accept or reject                                          *)
(***************************************************************************)
\* (variant: a draw is also lost when exp(total) >= 1)
urand_lt_exp_Coin(tot) == {TRUE, FALSE}

\* the possible values of urand() < exp(tot), urand() in [0, 1):
\* exp(NaN) is NaN, exp(+infinity) is +infinity, exp(-infinity) is 0
urand_lt_exp(tot) ==
    IF RIsNaN(tot) THEN {FALSE}                          \* u < NaN
    ELSE IF ~RIsFinite(tot) THEN {~RLess(tot, RZero)}    \* u < +infinity, u < 0
    ELSE IF RLess(tot, RZero) THEN {TRUE, FALSE}
    ELSE {TRUE}

\* (variant: a rejected deletion is not reversed)
InsertCalled_NoRestore(del, pm, acc) ==
    IF acc THEN (IF pm THEN ~del ELSE del) ELSE FALSE

\* whether insertArc(g, i, j) is called after the decision
InsertCalled(del, pm, acc) ==
    IF acc THEN (IF pm THEN ~del ELSE del) ELSE del

VecAdd(v, w) == [l \in 1 .. n_params |-> v[l] + w[l]]

\* the change statistics and their weighted sum, then the draw
Decide ==
    /\ spc = "decide"
    /\ \E acc \in urand_lt_exp(TotalOf(theta, ChangeStatsOf(arcs, i, j), isDelete)) :
          /\ (acc /\ performMove) => moves < MaxMoves
          /\ accepted' = IF acc THEN accepted + 1 ELSE accepted
          /\ arcs' = IF InsertCalled(isDelete, performMove, acc)
                     THEN insertArc(arcs, i, j) ELSE arcs
          /\ dupArcs' = IF InsertCalled(isDelete, performMove, acc) /\ isArc(arcs, i, j)
                        THEN dupArcs \cup {<<i, j>>} ELSE dupArcs
          /\ addChangeStats' = IF acc /\ ~isDelete
                               THEN VecAdd(addChangeStats, ChangeStatsOf(arcs, i, j))
                               ELSE addChangeStats
          /\ delChangeStats' = IF acc /\ isDelete
                               THEN VecAdd(delChangeStats, ChangeStatsOf(arcs, i, j))
                               ELSE delChangeStats
          /\ lastOutcome' = IF acc THEN "accepted" ELSE "rejected"
          /\ moves' = IF acc /\ performMove THEN moves + 1 ELSE moves
    /\ k' = k + 1
    /\ spc' = IF k + 1 < sampler_m THEN "select" ELSE "return"
    /\ UNCHANGED <<num_nodes, zone, configVars, performMove, sampler_m, theta,
                   i, j, isDelete, acceptance_rate, arcs0, arcsBefore,
                   phase, alg, drv>>

\* entry of basicSampler: the out-vectors are zeroed, no proposal made yet
EnterBasicSampler(pm, th) ==
    /\ performMove' = pm
    /\ theta' = th
    /\ addChangeStats' = Zeros
    /\ delChangeStats' = Zeros
    /\ accepted' = 0
    /\ isDelete' = FALSE
    /\ k' = 0
    /\ spc' = IF 0 < sampler_m THEN "select" ELSE "return"
    /\ lastOutcome' = "none"
    /\ UNCHANGED <<graphVars, configVars, sampler_m, i, j, acceptance_rate,
                   arcs0, arcsBefore, moves>>

\* return of basicSampler: the acceptance rate
ReturnBasicSampler ==
    /\ spc = "return"
    /\ acceptance_rate' = RNorm(accepted, sampler_m)
    /\ spc' = "idle"
    /\ UNCHANGED <<graphVars, configVars, performMove, sampler_m, theta, i, j,
                   isDelete, k, accepted, addChangeStats, delChangeStats,
                   arcs0, arcsBefore,
                   lastOutcome, moves, phase, alg, drv>>

(***************************************************************************)
(* Initial states: the loaded graph and the configuration                  *)
(***************************************************************************)
\* snowball zone layouts of n nodes: two seeds and a chain of waves; a chain
\* of waves; two seeds and one outer wave
ZoneMaps(n) ==
    { [v \in NodesOf(n) |-> IF v = 0 THEN 0 ELSE v - 1],
      [v \in NodesOf(n) |-> v],
      [v \in NodesOf(n) |-> IF v < 2 THEN 0 ELSE 1] }

\* snowball samples with zone map z: every node outside the seed wave has one
\* tie to a node of the preceding wave, all these ties pointing the same way,
\* and there is at most one arc inside the outermost wave
SnowballGraphs(n, z) ==
    LET NonSeeds == {v \in NodesOf(n) : z[v] > 0}
        Parents == {p \in [NonSeeds -> NodesOf(n)] :
                        \A v \in NonSeeds : z[p[v]] = z[v] - 1}
        Outer == {v \in NodesOf(n) : \A u \in NodesOf(n) : z[u] <= z[v]}
        Extras == {{}} \cup {{d} : d \in {e \in Outer \X Outer : e[1] < e[2]}}
    IN  {{IF up THEN <<v, p[v]>> ELSE <<p[v], v>> : v \in NonSeeds} \cup x :
            p \in Parents, up \in BOOLEAN, x \in Extras}

\* graphs without snowball zones: empty, one arc, one mutual dyad
PlainGraphs(n) == {{}, {<<0, 1>>}, {<<0, 1>>, <<1, 0>>}}

EffectLists == {<<"Arc", "Reciprocity">>}

ThetaValues == {RInt(-1), RInt(0), RInt(1)}
ThetaInputs == {[l \in 1 .. n_params |-> v] : v \in ThetaValues}

NoAlg == [pc |-> "off"]
NoDrv == [pc |-> "off"]

InitGraph ==
    \/ /\ useConditionalEstimation = FALSE
       /\ num_nodes = MaxNodes
       /\ zone = [v \in NodesOf(num_nodes) |-> 0]
       /\ arcs \in PlainGraphs(num_nodes)
    \/ /\ useConditionalEstimation = TRUE
       /\ num_nodes = MaxSnowballNodes
       /\ zone \in ZoneMaps(num_nodes)
       /\ arcs \in SnowballGraphs(num_nodes, zone)

InitSamplerFrame ==
    /\ spc = "idle"
    /\ performMove = FALSE
    /\ theta = [l \in 1 .. n_params |-> RZero]
    /\ i = 0 /\ j = 0 /\ isDelete = FALSE
    /\ k = 0 /\ accepted = 0
    /\ addChangeStats = Zeros /\ delChangeStats = Zeros
    /\ acceptance_rate = RZero
    /\ dupArcs = {}
    /\ arcs0 = arcs /\ arcsBefore = arcs
    /\ lastOutcome = "none"
    /\ moves = 0
    /\ phase = "S"

Init ==
    /\ drv = NoDrv
    /\ InitGraph
    /\ forbidReciprocity \in BOOLEAN
    /\ param_names \in EffectLists
    /\ sampler_m = MaxSamplerM
    /\ alg = NoAlg
    /\ InitSamplerFrame

(***************************************************************************)
(* The sampler as its callers use it: algorithm_S sweeps without           *)
(* performing the moves, then algorithm_EE sweeps performing them          *)
(***************************************************************************)
AlgorithmSCall ==
    /\ spc = "idle"
    /\ phase = "S"
    /\ \E th \in ThetaInputs : EnterBasicSampler(FALSE, th)
    /\ UNCHANGED <<phase, alg, drv>>

AlgorithmEECall ==
    /\ spc = "idle"
    /\ \E th \in ThetaInputs : EnterBasicSampler(TRUE, th)
    /\ phase' = "EE"
    /\ UNCHANGED <<alg, drv>>

Next ==
    \/ AlgorithmSCall
    \/ AlgorithmEECall
    \/ SelectConditional
    \/ SelectUnconditional
    \/ Evaluate
    \/ Decide
    \/ ReturnBasicSampler

Spec == Init /\ [][Next]_vars

(***************************************************************************)
(* algorithm_S with the basic sampler                                      *)
(***************************************************************************)
\* largest number M1 of iterations of algorithm_S
MaxM1 == 2

ACAInputs == {RInt(1), <<1, 2>>}

\* (variant: the unsigned difference printed as unsigned, its low half shown)
PrintedT_Unsigned(t, M1) == (t - M1) % 65536

\* the unsigned difference t - M1 as printf("%d") shows it: the difference
\* modulo 2^32, held as two 16-bit halves, read back as a signed int
PrintedT(t, M1) ==
    LET d == t - M1
        hi == IF d < 0 THEN 65535 - ((-d - 1) \div 65536) ELSE d \div 65536
        lo == d % 65536
    IN  IF hi >= 32768 THEN (hi - 65536) * 65536 + lo ELSE hi * 65536 + lo

\* da[l]: ACA / sumChangeStats^2, or 0 when the sum is 0
S_da(ACA, sum) == IF sum < 0 \/ sum > 0 THEN RDiv(ACA, RInt(sum * sum)) ELSE RZero

\* (variant: the step follows the opposite sign)
S_theta_step_Negated(ACA, add, del) ==
    LET dzA == del - add
    IN  RMul(RInt((IF dzA < 0 THEN 1 ELSE -1) * dzA * dzA), S_da(ACA, add + del))

\* theta_step[l] from one sweep's sums of change statistics
S_theta_step(ACA, add, del) ==
    LET dzA == del - add
    IN  RMul(RInt((IF dzA < 0 THEN -1 ELSE 1) * dzA * dzA), S_da(ACA, add + del))

\* Dmean[l] = sampler_m / D0[l]; <<1, 0>> stands for +infinity and <<0, 0>>
\* for NaN
S_Dmean(m, d0) ==
    IF d0 # 0 THEN RNorm(m, d0) ELSE IF m # 0 THEN <<1, 0>> ELSE <<0, 0>>

InitS ==
    /\ drv = NoDrv
    /\ InitGraph
    /\ forbidReciprocity \in BOOLEAN
    /\ param_names \in {<<"Arc">>, <<"Arc", "Reciprocity">>}
    /\ sampler_m = MaxSamplerM
    /\ \E M1 \in 0 .. MaxM1 : \E ACA \in ACAInputs :
          alg = [pc |-> "loop", M1 |-> M1, ACA |-> ACA, t |-> 0,
                 D0 |-> Zeros, Dmean |-> <<>>, theta_outfile |-> <<>>]
    /\ InitSamplerFrame

\* one iteration of the loop up to the return of the sampler
S_Call ==
    /\ alg.pc = "loop"
    /\ alg.t < alg.M1
    /\ ~useIFDsampler
    /\ spc = "idle"
    /\ EnterBasicSampler(FALSE, theta)
    /\ alg' = [alg EXCEPT !.pc = "in_sampler"]
    /\ UNCHANGED <<phase, drv>>

\* the rest of the iteration: D0, the step of theta, the row of the theta file
S_Update ==
    /\ alg.pc = "in_sampler"
    /\ spc = "idle"
    /\ LET dzA == [l \in 1 .. n_params |-> delChangeStats[l] - addChangeStats[l]]
           th == [l \in 1 .. n_params |->
                    RAdd(theta[l], S_theta_step(alg.ACA, addChangeStats[l],
                                                delChangeStats[l]))]
       IN  /\ theta' = th
           /\ alg' = [alg EXCEPT
                        !.pc = "loop",
                        !.t = alg.t + 1,
                        !.D0 = [l \in 1 .. n_params |-> alg.D0[l] + dzA[l] * dzA[l]],
                        !.theta_outfile = Append(alg.theta_outfile,
                            [t |-> PrintedT(alg.t, alg.M1), theta |-> th,
                             acceptance_rate |-> acceptance_rate])]
    /\ UNCHANGED <<graphVars, configVars, spc, performMove, sampler_m, i, j,
                   isDelete, k, accepted, addChangeStats, delChangeStats,
                   acceptance_rate, historyVars, drv>>

\* after the loop: Dmean
S_Finish ==
    /\ alg.pc = "loop"
    /\ alg.t = alg.M1
    /\ alg' = [alg EXCEPT
                 !.pc = "done",
                 !.Dmean = [l \in 1 .. n_params |-> S_Dmean(sampler_m, alg.D0[l])]]
    /\ UNCHANGED <<graphVars, configVars, samplerVars, historyVars, drv>>

NextS ==
    \/ S_Call
    \/ SelectConditional
    \/ SelectUnconditional
    \/ Evaluate
    \/ Decide
    \/ ReturnBasicSampler
    \/ S_Update
    \/ S_Finish

SpecS == InitS /\ [][NextS]_vars

(***************************************************************************)
(* algorithm_EE and ee_estimate (algorithm_S, then algorithm_EE)           *)
(***************************************************************************)
\* largest Mouter (EEsteps) and Minner (EEinnerSteps)
MaxMouter == 2
MaxMinner == 2

RAbs(a) == <<Abs(a[1]), a[2]>>

\* mean_and_sd: the mean, and the variance whose root is the sd
Mean(xs) == RDiv(RSum(xs), RInt(Len(xs)))
Variance(xs) ==
    LET mu == Mean(xs)
        dev == [q \in 1 .. Len(xs) |-> RAdd(xs[q], RNeg(mu))]
    IN  RDiv(RSum([q \in 1 .. Len(xs) |-> RMul(dev[q], dev[q])]), RInt(Len(xs)))

\* if (fabs(theta_mean) < 0.1) theta_mean = 0.1
FlooredMean(mu) == IF RLess(RAbs(mu), <<1, 10>>) THEN <<1, 10>> ELSE mu

\* assert(theta_sd >= 0): fails for a NaN sd
SdAssertion(var) == ~RIsNaN(var)

\* theta_sd > 1e-10: the variances met here are 0 or far above 1e-20
SdAboveThreshold(var) == RLess(RZero, var)

Pow4(r) == r * r * r * r

\* the fourth root of a positive rational x, to halves, never rounded to 0
\* and never across 1
Root4(x) ==
    LET P == 2
        fl == CHOOSE r \in 0 .. 16 * P :
                 /\ Pow4(r) * x[2] <= x[1] * Pow4(P)
                 /\ (r = 16 * P \/ x[1] * Pow4(P) < Pow4(r + 1) * x[2])
        r0 == IF RLess(RInt(1), x) /\ fl <= P THEN P + 1
              ELSE IF fl = 0 THEN 1 ELSE fl
    IN  RNorm(r0, P)

\* (variant: D0 is only ever shrunk)
EE_D0_factor_ShrinkOnly(compC, mu, var) ==
    LET x == RDiv(RMul(RMul(compC, compC), RMul(mu, mu)), var)
    IN  IF RLess(RInt(1), x) THEN RInt(1) ELSE Root4(x)

\* sqrt(compC / (theta_sd / fabs(theta_mean))), theta_sd the root of var:
\* the fourth root of compC^2 * mean^2 / var
EE_D0_factor(compC, mu, var) ==
    Root4(RDiv(RMul(RMul(compC, compC), RMul(mu, mu)), var))

\* (variant: the sums are taken the other way round, as in algorithm_S)
EE_dzA_DelMinusAdd(dzA, add, del, tinner) == dzA + del - add

\* (variant: dzA starts again at each outer iteration)
EE_dzA_ResetEachOuter(dzA, add, del, tinner) ==
    IF tinner = 0 THEN add - del ELSE dzA + add - del

\* dzA[l] += addChangeStats[l] - delChangeStats[l]
EE_dzA(dzA, add, del, tinner) == dzA + add - del

\* (variant: the step has the sign of dzA, as in algorithm_S)
EE_theta_step_SameSign(D0, ACA, dzA) ==
    RMul(RMul(RMul(RInt(IF dzA < 0 THEN -1 ELSE 1), RMul(D0, ACA)), RInt(dzA)),
         RInt(dzA))

\* theta_step[l] = (dzA[l] < 0 ? 1 : -1) * da[l] * dzA[l] * dzA[l],
\* da[l] = D0[l] * ACA
EE_theta_step(D0, ACA, dzA) ==
    RMul(RMul(RMul(RInt(IF dzA < 0 THEN 1 ELSE -1), RMul(D0, ACA)), RInt(dzA)),
         RInt(dzA))

\* (variant: a row on every iteration whatever outputAllSteps)
EE_emits_Always(outputAllSteps, tinner) == TRUE

\* outputAllSteps || tinner == 0
EE_emits(outputAllSteps, tinner) == outputAllSteps \/ tinner = 0

\* (variant: the buffer is left as it is)
fflush_Nothing(file, flushed) == flushed

\* fflush(file): the number of rows of the file that are written out, after
\* the call all of them; flushed is that number before the call
fflush(file, flushed) == Len(file)

\* uint_t is a 32-bit unsigned int (its values are printed with %u).  A value
\* is held as its four bytes, lowest first, so that products stay exact
uint_t(x) ==
    <<x % 256, (x \div 256) % 256, (x \div 65536) % 256, x \div 16777216>>

\* the number held in the bytes L (for numbers below 2^31)
uint_value(L) == L[1] + 256 * L[2] + 65536 * L[3] + 16777216 * L[4]

\* the sum of the byte products of place p (places from 1) of a times b
MulColumn(a, b, p) ==
    LET Term(q) == IF (q \in 1 .. Len(a)) /\ (p + 1 - q \in 1 .. Len(b))
                   THEN a[q] * b[p + 1 - q] ELSE 0
    IN  Term(1) + Term(2) + Term(3) + Term(4)

\* the bytes from place p on of the column sums, carry c coming in
RECURSIVE CarryBytes(_, _, _)
CarryBytes(cols, p, c) ==
    IF p > Len(cols) THEN <<>>
    ELSE <<(cols[p] + c) % 256>> \o CarryBytes(cols, p + 1, (cols[p] + c) \div 256)

\* the full product of two uint_t values: eight bytes
WideMul(a, b) == CarryBytes([p \in 1 .. 8 |-> MulColumn(a, b, p)], 1, 0)

\* (variant: the product is kept in eight bytes)
uint_mul_Wide(a, b) == WideMul(a, b)

\* the product of two uint_t values in C: the low four bytes of the product
uint_mul(a, b) == SubSeq(WideMul(a, b), 1, 4)

\* the bytes 1 .. p of the quotient of L by m, remainder rem coming in from
\* the bytes above p (m below 2^23)
RECURSIVE DivBytes(_, _, _, _)
DivBytes(L, p, rem, m) ==
    IF p = 0 THEN <<>>
    ELSE Append(DivBytes(L, p - 1, (rem * 256 + L[p]) % m, m),
                (rem * 256 + L[p]) \div m)

\* the quotient of unsigned division in C
uint_div(L, m) == DivBytes(L, Len(L), 0, m)

\* M1 = (uint_t)(M1_steps * g->num_nodes / sampler_m): unsigned arithmetic
\* of 32 bits, the product first
ee_M1(M1_steps, n, m) == uint_div(uint_mul(uint_t(M1_steps), uint_t(n)), m)

ACA_EE_Inputs == {RInt(1)}
compC_Inputs == {<<1, 4>>, RInt(2)}

\* arcCorrection(g) is ln(L / (N - L)), L the number of arcs and N the
\* number of ordered pairs of distinct nodes; it is held as L / (N - L),
\* of which it is the logarithm (<<0, 1>> for -infinity, <<1, 0>> for
\* +infinity)
arcCorrection(g) ==
    RNorm(Cardinality(g), num_nodes * (num_nodes - 1) - Cardinality(g))

\* ifd_aux_param - arc_correction_val as written to the theta file: the
\* pair of ifd_aux_param and of the number whose logarithm is subtracted
IFD_ArcValue(aux, corr) == <<aux, corr>>

\* the frame of ee_estimate at the entry of algorithm_S: its parameters, and
\* the locals of algorithm_S and algorithm_EE with the records kept of them
ee_estimate_frame(M1, Mouter, Minner, all, ACA_EE, compC) ==
    [pc |-> "loop", M1 |-> M1,
     ACA |-> RInt(1), t |-> 0,
     D0 |-> Zeros, Dmean |-> <<>>, theta_outfile |-> <<>>,
     Mouter |-> Mouter, Minner |-> Minner, ACA_EE |-> ACA_EE,
     compC |-> compC, outputAllSteps |-> all,
     touter |-> 0, tinner |-> 0, tEE |-> 0, dzA |-> Zeros,
     eeD0 |-> <<>>, thetamatrix |-> <<>>, dzA_outfile |-> <<>>,
     sweeps |-> <<>>, theta_before |-> <<>>, D0_before |-> <<>>,
     outer_mean |-> <<>>, outer_var |-> <<>>,
     theta_flushed |-> 0, dzA_flushed |-> 0,
     theta_at_outer |-> 0, dzA_at_outer |-> 0,
     arcs_at_entry |-> {},
     ifd_aux_param |-> RZero,
     arc_correction_val |-> IF useIFDsampler THEN arcCorrection(arcs) ELSE <<>>,
     dzArc |-> 0, ifd_K |-> RZero]

\* ee_estimate on the graphs of two nodes, with one proposal per sweep and
\* M1_steps giving M1 = 2 * M1_steps of at most MaxM1 iterations
InitEst ==
    /\ drv = NoDrv
    /\ useConditionalEstimation = FALSE
    /\ forbidReciprocity = FALSE
    /\ num_nodes = 2
    /\ zone = [v \in NodesOf(num_nodes) |-> 0]
    /\ arcs \in PlainGraphs(num_nodes)
    /\ param_names \in {<<"Arc">>, <<"Arc", "Reciprocity">>}
    /\ sampler_m = 1
    /\ \E M1_steps \in {0, MaxM1 \div 2} : \E Mouter \in {0, MaxMouter} :
       \E Minner \in {1, MaxMinner} : \E all \in BOOLEAN :
       \E ACA_EE \in ACA_EE_Inputs : \E compC \in compC_Inputs :
          alg = ee_estimate_frame(uint_value(ee_M1(M1_steps, num_nodes, sampler_m)),
                                  Mouter, Minner, all, ACA_EE, compC)
    /\ InitSamplerFrame

\* ee_estimate after algorithm_S has returned: the theta file is flushed,
\* then entry of algorithm_EE with Dmean as D0; dzA is zeroed here only.
\* theta_at_outer and dzA_at_outer record the lengths of the files where the
\* running outer iteration began, arcs_at_entry the graph at entry
EE_Enter ==
    /\ alg.pc = "done"
    /\ alg' = [alg EXCEPT !.pc = "ee_loop", !.eeD0 = alg.Dmean, !.dzA = Zeros,
                          !.tEE = 0, !.touter = 0, !.tinner = 0,
                          !.thetamatrix = <<>>,
                          !.theta_flushed = fflush(alg.theta_outfile,
                                                   alg.theta_flushed),
                          !.theta_at_outer = Len(alg.theta_outfile),
                          !.dzA_at_outer = Len(alg.dzA_outfile),
                          !.arcs_at_entry = arcs,
                          !.ifd_aux_param = RZero,
                          !.arc_correction_val =
                              IF useIFDsampler THEN arcCorrection(arcs)
                              ELSE alg.arc_correction_val]
    /\ UNCHANGED <<graphVars, configVars, samplerVars, historyVars, drv>>

\* one inner iteration up to the return of the sampler
EE_Call ==
    /\ alg.pc = "ee_loop"
    /\ alg.touter < alg.Mouter
    /\ alg.tinner < alg.Minner
    /\ ~useIFDsampler
    /\ spc = "idle"
    /\ EnterBasicSampler(TRUE, theta)
    /\ alg' = [alg EXCEPT !.pc = "ee_in_sampler"]
    /\ UNCHANGED <<phase, drv>>

\* the rest of the inner iteration: dzA, the step of theta, the rows
EE_Update ==
    /\ alg.pc = "ee_in_sampler"
    /\ spc = "idle"
    /\ LET dz == [l \in 1 .. n_params |->
                    EE_dzA(alg.dzA[l], addChangeStats[l], delChangeStats[l],
                           alg.tinner)]
           th == [l \in 1 .. n_params |->
                    RAdd(theta[l], EE_theta_step(alg.eeD0[l], alg.ACA_EE, dz[l]))]
           out == EE_emits(alg.outputAllSteps, alg.tinner)
       IN  /\ theta' = th
           /\ alg' = [alg EXCEPT
                        !.pc = IF alg.tinner + 1 < alg.Minner
                               THEN "ee_loop" ELSE "ee_outer_end",
                        !.dzA = dz,
                        !.tEE = alg.tEE + 1,
                        !.tinner = alg.tinner + 1,
                        !.thetamatrix = Append(alg.thetamatrix, th),
                        !.theta_outfile =
                            IF out
                            THEN Append(alg.theta_outfile,
                                        [t |-> alg.tEE, theta |-> th,
                                         acceptance_rate |-> acceptance_rate])
                            ELSE alg.theta_outfile,
                        !.dzA_outfile =
                            IF out
                            THEN Append(alg.dzA_outfile, [t |-> alg.tEE, dzA |-> dz])
                            ELSE alg.dzA_outfile,
                        !.sweeps = Append(alg.sweeps,
                            [l \in 1 .. n_params |->
                               addChangeStats[l] - delChangeStats[l]]),
                        !.theta_before = theta]
    /\ UNCHANGED <<graphVars, configVars, spc, performMove, sampler_m, i, j,
                   isDelete, k, accepted, addChangeStats, delChangeStats,
                   acceptance_rate, historyVars, drv>>

\* the end of an outer iteration: mean and sd of each theta over the inner
\* loop, the adjustment of D0, and the flush of both files; a failed
\* assertion aborts before the flush
EE_OuterEnd ==
    /\ alg.pc = "ee_outer_end"
    /\ LET col(l) == [q \in 1 .. Len(alg.thetamatrix) |-> alg.thetamatrix[q][l]]
           mu == [l \in 1 .. n_params |-> FlooredMean(Mean(col(l)))]
           var == [l \in 1 .. n_params |-> Variance(col(l))]
       IN  IF \E l \in 1 .. n_params : ~SdAssertion(var[l])
           THEN alg' = [alg EXCEPT !.pc = "ee_assert_failed"]
           ELSE alg' = [alg EXCEPT
                          !.pc = "ee_loop",
                          !.touter = alg.touter + 1,
                          !.tinner = 0,
                          !.thetamatrix = <<>>,
                          !.D0_before = alg.eeD0,
                          !.outer_mean = mu,
                          !.outer_var = var,
                          !.dzA_flushed = fflush(alg.dzA_outfile, alg.dzA_flushed),
                          !.theta_flushed = fflush(alg.theta_outfile,
                                                   alg.theta_flushed),
                          !.theta_at_outer = Len(alg.theta_outfile),
                          !.dzA_at_outer = Len(alg.dzA_outfile),
                          !.eeD0 = [l \in 1 .. n_params |->
                                      IF SdAboveThreshold(var[l])
                                      THEN RMul(alg.eeD0[l],
                                                EE_D0_factor(alg.compC, mu[l], var[l]))
                                      ELSE alg.eeD0[l]]]
    /\ UNCHANGED <<graphVars, configVars, samplerVars, historyVars, drv>>

\* after the last outer iteration
EE_Finish ==
    /\ alg.pc = "ee_loop"
    /\ alg.touter = alg.Mouter
    /\ alg' = [alg EXCEPT !.pc = "ee_done"]
    /\ UNCHANGED <<graphVars, configVars, samplerVars, historyVars, drv>>

NextEst ==
    \/ S_Call
    \/ S_Update
    \/ S_Finish
    \/ EE_Enter
    \/ EE_Call
    \/ EE_Update
    \/ EE_OuterEnd
    \/ EE_Finish
    \/ SelectUnconditional
    \/ Evaluate
    \/ Decide
    \/ ReturnBasicSampler

SpecEst == InitEst /\ [][NextEst]_vars

(***************************************************************************)
(* ee_estimate: the number M1 of iterations of algorithm_S, over large     *)
(* values of Ssteps (M1_steps), of the node count and of samplerSteps      *)
(***************************************************************************)
M1_steps_Inputs == {0, 1, 1000, 65535, 65536, 65537, 2147483647}
num_nodes_Inputs == {0, 1, 2, 1000, 65536, 100000}
sampler_m_Inputs == {1, 2, 1000, 65536}

\* entry of ee_estimate; the arcs of the graph play no part here and the
\* node count is held in the frame
InitM1 ==
    /\ drv = NoDrv
    /\ useConditionalEstimation = FALSE
    /\ forbidReciprocity = FALSE
    /\ num_nodes = 0
    /\ zone = [v \in NodesOf(num_nodes) |-> 0]
    /\ arcs = {}
    /\ param_names = <<"Arc">>
    /\ sampler_m \in sampler_m_Inputs
    /\ \E M1_steps \in M1_steps_Inputs : \E n \in num_nodes_Inputs :
          alg = [pc |-> "ee_estimate", M1_steps |-> M1_steps, num_nodes |-> n,
                 M1 |-> uint_t(0)]
    /\ InitSamplerFrame

\* the computation of M1
EE_ComputeM1 ==
    /\ alg.pc = "ee_estimate"
    /\ alg' = [alg EXCEPT !.pc = "M1_computed",
                          !.M1 = ee_M1(alg.M1_steps, alg.num_nodes, sampler_m)]
    /\ UNCHANGED <<graphVars, configVars, samplerVars, historyVars, drv>>

NextM1 == EE_ComputeM1

SpecM1 == InitM1 /\ [][NextM1]_vars

(***************************************************************************)
(* algorithm_S as a function of the graph, its parameters, the theta array *)
(* at entry and the sequence of PRNG draws                                 *)
(***************************************************************************)
\* length of the sequence of draws
MaxDraws == 6

\* a draw of the generator: u in [0, 1) and ln(u) to two decimals
\* (-infinity for u = 0)
DrawValues ==
    { [u |-> <<0, 1>>, lnu |-> <<-1, 0>>],
      [u |-> <<3, 4>>, lnu |-> <<-29, 100>>] }

RECURSIVE SeqsOf(_, _)
SeqsOf(S, len) ==
    IF len = 0 THEN {<<>>}
    ELSE {Append(q, x) : q \in SeqsOf(S, len - 1), x \in S}

\* int_urand(n): the draw scaled to 0 .. n-1
int_urand(n, d) == (n * d.u[1]) \div d.u[2]

\* urand() < exp(tot) for the draw d: ln(u) < tot
urand_lt_exp_of(d, tot) == RLess(d.lnu, tot)

\* the one element of a set of one element
TheOne(S) == CHOOSE x \in S : TRUE

\* do j = int_urand(num_nodes) while (i == j), from place pos of the draws;
\* pos = 0 in the result when the draws run out
RECURSIVE DrawJ(_, _, _)
DrawJ(a, draws, pos) ==
    IF pos > Len(draws) THEN [j |-> a, pos |-> 0]
    ELSE IF int_urand(num_nodes, draws[pos]) = a THEN DrawJ(a, draws, pos + 1)
    ELSE [j |-> int_urand(num_nodes, draws[pos]), pos |-> pos + 1]

\* the selection of the dyad in unconditional mode
RECURSIVE SelectDyad(_, _, _)
SelectDyad(g, draws, pos) ==
    IF pos > Len(draws) THEN [i |-> 0, j |-> 0, pos |-> 0]
    ELSE TheOne({ IF dj.pos = 0 THEN [i |-> a, j |-> a, pos |-> 0]
                  ELSE IF UncondRedraw(g, a, dj.j, UncondIsDelete(g, a, dj.j))
                  THEN SelectDyad(g, draws, dj.pos)
                  ELSE [i |-> a, j |-> dj.j, pos |-> dj.pos] :
                    a \in {int_urand(num_nodes, draws[pos])},
                    dj \in {DrawJ(int_urand(num_nodes, draws[pos]), draws, pos + 1)} })

\* the sweep after the proposal on the dyad sel, decided with the draw at
\* sel.pos
Proposal(sw, sel, th, draws) ==
    LET del == UncondIsDelete(sw.g, sel.i, sel.j)
        g1 == GraphForChangeStats(sw.g, sel.i, sel.j, del)
        cs == ChangeStatsOf(g1, sel.i, sel.j)
        acc == urand_lt_exp_of(draws[sel.pos], TotalOf(th, cs, del))
    IN  [g |-> IF InsertCalled(del, FALSE, acc)
               THEN insertArc(g1, sel.i, sel.j) ELSE g1,
         add |-> IF acc /\ ~del THEN VecAdd(sw.add, cs) ELSE sw.add,
         del |-> IF acc /\ del THEN VecAdd(sw.del, cs) ELSE sw.del,
         accepted |-> IF acc THEN sw.accepted + 1 ELSE sw.accepted,
         pos |-> sel.pos + 1]

\* proposals k .. sampler_m - 1 of a sweep that does not perform the moves;
\* sw holds the graph, the sums, the count of accepted proposals and the
\* place in the draws
RECURSIVE Sweep(_, _, _, _)
Sweep(sw, th, draws, kk) ==
    IF kk >= sampler_m \/ sw.pos = 0 THEN sw
    ELSE TheOne({ IF sel.pos = 0 \/ sel.pos > Len(draws) THEN [sw EXCEPT !.pos = 0]
                  ELSE TheOne({Sweep(nxt, th, draws, kk + 1) :
                                  nxt \in {Proposal(sw, sel, th, draws)}}) :
                    sel \in {SelectDyad(sw.g, draws, sw.pos)} })

\* (variant: theta is left as it was at entry)
S_theta_at_entry_Kept(th) == th

\* for (l = 0; l < n; l++) theta[l] = 0
S_theta_at_entry(th) == [l \in 1 .. n_params |-> RZero]

\* the run after iteration t, whose sweep gave sw
S_Iteration(run, sw, t, M1, ACA) ==
    LET dzA == [l \in 1 .. n_params |-> sw.del[l] - sw.add[l]]
        th == [l \in 1 .. n_params |->
                 RAdd(run.theta[l], S_theta_step(ACA, sw.add[l], sw.del[l]))]
    IN  [g |-> sw.g, theta |-> th,
         D0 |-> [l \in 1 .. n_params |-> run.D0[l] + dzA[l] * dzA[l]],
         rows |-> Append(run.rows,
                    [t |-> PrintedT(t, M1), theta |-> th,
                     acceptance_rate |-> RNorm(sw.accepted, sampler_m)]),
         pos |-> sw.pos]

\* iterations t .. M1 - 1 of algorithm_S; run holds the graph, theta, D0,
\* the rows written and the place in the draws (0 when they ran out)
RECURSIVE S_Iterations(_, _, _, _, _)
S_Iterations(run, t, M1, ACA, draws) ==
    IF t >= M1 \/ run.pos = 0 THEN run
    ELSE TheOne({ IF sw.pos = 0 THEN [run EXCEPT !.pos = 0]
                  ELSE TheOne({S_Iterations(nxt, t + 1, M1, ACA, draws) :
                                  nxt \in {S_Iteration(run, sw, t, M1, ACA)}}) :
                    sw \in {Sweep([g |-> run.g, add |-> Zeros, del |-> Zeros,
                                   accepted |-> 0, pos |-> run.pos],
                                  run.theta, draws, 0)} })

\* algorithm_S with the basic sampler: theta, Dmean, the rows of the theta
\* file and the graph at return; complete is FALSE when the draws given did
\* not suffice
algorithm_S(g, th, M1, ACA, draws) ==
    TheOne({ [theta |-> run.theta,
              Dmean |-> [l \in 1 .. n_params |-> S_Dmean(sampler_m, run.D0[l])],
              theta_outfile |-> run.rows,
              g |-> run.g,
              complete |-> run.pos # 0] :
                run \in {S_Iterations([g |-> g, theta |-> S_theta_at_entry(th),
                                       D0 |-> Zeros, rows |-> <<>>, pos |-> 1],
                                      0, M1, ACA, draws)} })

\* two calls of algorithm_S are set up: the same graph, parameters and draws,
\* and two theta arrays (theta and theta_other)
InitDet ==
    /\ drv = NoDrv
    /\ useConditionalEstimation = FALSE
    /\ forbidReciprocity \in BOOLEAN
    /\ num_nodes = 2
    /\ zone = [v \in NodesOf(num_nodes) |-> 0]
    /\ arcs \in PlainGraphs(num_nodes)
    /\ param_names = <<"Arc", "Reciprocity">>
    /\ sampler_m = 1
    /\ \E draws \in SeqsOf(DrawValues, MaxDraws) : \E th \in ThetaInputs :
          alg = [pc |-> "two_calls", M1 |-> MaxM1, ACA |-> RInt(1), draws |-> draws,
                 theta_other |-> th, theta_first |-> <<>>,
                 first |-> <<>>, second |-> <<>>]
    /\ InitSamplerFrame

\* the theta array of the first call holds anything at entry
S_AnyThetaAtEntry ==
    /\ alg.pc = "two_calls"
    /\ \E th \in ThetaInputs :
          /\ theta' = th
          /\ alg' = [alg EXCEPT !.pc = "theta_set", !.theta_first = th]
    /\ UNCHANGED <<graphVars, configVars, spc, performMove, sampler_m, i, j,
                   isDelete, k, accepted, addChangeStats, delChangeStats,
                   acceptance_rate, historyVars, drv>>

\* both calls, each from the graph as loaded
S_BothCalls ==
    /\ alg.pc = "theta_set"
    /\ \E first \in {algorithm_S(arcs, theta, alg.M1, alg.ACA, alg.draws)} :
       \E second \in {algorithm_S(arcs, alg.theta_other, alg.M1, alg.ACA,
                                  alg.draws)} :
          /\ alg' = [alg EXCEPT !.pc = "both_returned", !.first = first,
                                !.second = second]
          /\ theta' = first.theta
          /\ arcs' = first.g
    /\ UNCHANGED <<num_nodes, zone, dupArcs, configVars, spc, performMove,
                   sampler_m, i, j, isDelete, k, accepted, addChangeStats,
                   delChangeStats, acceptance_rate, historyVars, drv>>

NextDet ==
    \/ S_AnyThetaAtEntry
    \/ S_BothCalls

SpecDet == InitDet /\ [][NextDet]_vars

(***************************************************************************)
(* basicSampler, unconditional selection draw by draw: each int_urand is   *)
(* a step, so that the two do-while loops are loops of the model           *)
(***************************************************************************)
SelNodeCounts == {1, 2, 3}

\* graphs of n nodes: those of PlainGraphs and, from 3 nodes on, a cycle and
\* the complete graph
SelGraphs(n) ==
    IF n < 2 THEN {{}}
    ELSE PlainGraphs(n) \cup
         (IF n < 3 THEN {}
          ELSE {{<<0, 1>>, <<1, 2>>, <<2, 0>>}, {d \in DyadsOf(n) : TRUE}})

InitSel ==
    /\ drv = NoDrv
    /\ useConditionalEstimation = FALSE
    /\ num_nodes \in SelNodeCounts
    /\ zone = [v \in NodesOf(num_nodes) |-> 0]
    /\ arcs \in SelGraphs(num_nodes)
    /\ forbidReciprocity \in BOOLEAN
    /\ param_names \in EffectLists
    /\ sampler_m = 1
    /\ alg = NoAlg
    /\ InitSamplerFrame

\* a sweep is called at theta = 0; the moves are not performed, so that
\* every proposal selects on the graph as loaded
SelCall ==
    /\ spc = "idle"
    /\ EnterBasicSampler(FALSE, [l \in 1 .. n_params |-> RZero])
    /\ UNCHANGED <<phase, alg, drv>>

\* i = int_urand(g->num_nodes)
U_DrawI ==
    /\ spc = "select"
    /\ ~useConditionalEstimation
    /\ \E a \in Nodes : i' = a
    /\ spc' = "draw_j"
    /\ arcsBefore' = arcs
    /\ lastOutcome' = "none"
    /\ UNCHANGED <<graphVars, configVars, performMove, sampler_m, theta, j,
                   isDelete, k, accepted, addChangeStats, delChangeStats,
                   acceptance_rate, arcs0, moves, phase, alg, drv>>

\* j = int_urand(g->num_nodes), again while i == j; then isDelete and the
\* test of the outer do-while
U_DrawJ ==
    /\ spc = "draw_j"
    /\ \E b \in Nodes :
          /\ j' = b
          /\ IF b = i
             THEN /\ spc' = "draw_j"
                  /\ UNCHANGED isDelete
             ELSE /\ isDelete' = UncondIsDelete(arcs, i, b)
                  /\ spc' = IF UncondRedraw(arcs, i, b, UncondIsDelete(arcs, i, b))
                            THEN "select" ELSE "eval"
    /\ UNCHANGED <<graphVars, configVars, performMove, sampler_m, theta, i, k,
                   accepted, addChangeStats, delChangeStats, acceptance_rate,
                   historyVars, alg, drv>>

NextSel ==
    \/ SelCall
    \/ U_DrawI
    \/ U_DrawJ
    \/ Evaluate
    \/ Decide
    \/ ReturnBasicSampler

\* fair draws: a value that a draw can give again and again, with i as it
\* is, is given at some time
FairDraws ==
    /\ \A a \in NodesOf(SetMax(SelNodeCounts)) : SF_vars(U_DrawI /\ i' = a)
    /\ \A a \in NodesOf(SetMax(SelNodeCounts)) :
       \A b \in NodesOf(SetMax(SelNodeCounts)) :
          SF_vars(U_DrawJ /\ i = a /\ j' = b)

SpecSel == InitSel /\ [][NextSel]_vars /\ FairDraws

(***************************************************************************)
(* do_estimation: the files it opens, the graph and the theta array it     *)
(* acquires, and the status it returns.  The run of ee_estimate is one     *)
(* step here, between the opening and the closing of its two output files; *)
(* its content is the subject of SpecS and Spec.                           *)
(***************************************************************************)
ARC_PARAM_STR == "Arc"

\* strcasecmp(name, ARC_PARAM_STR) == 0 on the names used here
IsArcParam(name) == name \in {"Arc", "arc", "ARC"}

DriverEffectLists == {<<"Arc">>, <<"Reciprocity">>, <<"arc", "Reciprocity">>}

\* the loop over param_names of the IFD check
ArcListed == \E l \in 1 .. n_struct : IsArcParam(param_names[l])

\* (variant: no column for the Arc value of the IFD sampler)
FileHeader_NoArcColumn ==
    <<"t">> \o param_names
        \o [q \in 1 .. n_attr |-> attr_param_names[q] \o "_" \o attr_names[q]]
        \o dyadic_param_names

\* the header line of the output files, as a list of columns
FileHeader ==
    <<"t">> \o (IF drv.useIFDsampler THEN <<ARC_PARAM_STR>> ELSE <<>>) \o param_names
        \o [q \in 1 .. n_attr |-> attr_param_names[q] \o "_" \o attr_names[q]]
        \o dyadic_param_names

InitDriver ==
    /\ useConditionalEstimation = FALSE
    /\ forbidReciprocity = FALSE
    /\ num_nodes = MaxNodes
    /\ zone = [v \in NodesOf(num_nodes) |-> 0]
    /\ arcs = {}
    /\ param_names \in DriverEffectLists
    /\ sampler_m = MaxSamplerM
    /\ alg = NoAlg
    /\ \E arclist_ok, zone_given, zone_ok, attr_ok, dyadic_ok \in BOOLEAN :
       \E theta_ok, ifd, dzA_ok, outsim, sim_ok \in BOOLEAN :
          drv = [pc |-> "start",
                 arclist_ok |-> arclist_ok, zone_filename |-> zone_given,
                 zone_ok |-> zone_ok, attr_ok |-> attr_ok, dyadic_ok |-> dyadic_ok,
                 theta_ok |-> theta_ok, useIFDsampler |-> ifd, dzA_ok |-> dzA_ok,
                 outputSimulatedNetwork |-> outsim, sim_ok |-> sim_ok,
                 open |-> {}, created |-> {}, g |-> "none", theta |-> "none",
                 theta_header |-> <<>>, dzA_header |-> <<>>, written |-> {},
                 ret |-> 0]
    /\ InitSamplerFrame

DriverFrame == UNCHANGED <<graphVars, configVars, samplerVars, historyVars, alg>>

D_Return(status) == drv' = [drv EXCEPT !.pc = "returned", !.ret = status]

D_OpenArclist ==
    /\ drv.pc = "start"
    /\ IF drv.arclist_ok
       THEN drv' = [drv EXCEPT !.pc = "load", !.open = @ \cup {"arclist"}]
       ELSE D_Return(-1)
    /\ DriverFrame

\* load_digraph_from_arclist_file: whether it closes the file it was given
\* is not fixed here; do_estimation itself never closes it
D_Load ==
    /\ drv.pc = "load"
    /\ \E closes \in BOOLEAN :
          drv' = [drv EXCEPT !.pc = "zones", !.g = "loaded",
                             !.open = IF closes THEN @ \ {"arclist"} ELSE @]
    /\ DriverFrame

D_Zones ==
    /\ drv.pc = "zones"
    /\ IF drv.zone_filename /\ ~drv.zone_ok
       THEN D_Return(-1)
       ELSE drv' = [drv EXCEPT !.pc = "attr"]
    /\ DriverFrame

D_AttrIndices ==
    /\ drv.pc = "attr"
    /\ IF ~drv.attr_ok THEN D_Return(-1) ELSE drv' = [drv EXCEPT !.pc = "dyadic"]
    /\ DriverFrame

D_DyadicIndices ==
    /\ drv.pc = "dyadic"
    /\ IF ~drv.dyadic_ok THEN D_Return(-1) ELSE drv' = [drv EXCEPT !.pc = "alloc"]
    /\ DriverFrame

D_AllocTheta ==
    /\ drv.pc = "alloc"
    /\ drv' = [drv EXCEPT !.pc = "open_theta", !.theta = "allocated"]
    /\ DriverFrame

D_OpenTheta ==
    /\ drv.pc = "open_theta"
    /\ IF drv.theta_ok
       THEN drv' = [drv EXCEPT !.pc = "ifd_check", !.open = @ \cup {"theta"},
                               !.created = @ \cup {"theta"}]
       ELSE D_Return(-1)
    /\ DriverFrame

D_IFDCheck ==
    /\ drv.pc = "ifd_check"
    /\ IF drv.useIFDsampler /\ ArcListed
       THEN D_Return(-1)
       ELSE drv' = [drv EXCEPT !.pc = "open_dzA"]
    /\ DriverFrame

D_OpenDzA ==
    /\ drv.pc = "open_dzA"
    /\ IF drv.dzA_ok
       THEN drv' = [drv EXCEPT !.pc = "headers", !.open = @ \cup {"dzA"},
                               !.created = @ \cup {"dzA"}]
       ELSE D_Return(-1)
    /\ DriverFrame

D_Headers ==
    /\ drv.pc = "headers"
    /\ drv' = [drv EXCEPT !.pc = "estimate",
                          !.theta_header = FileHeader \o <<"AcceptanceRate">>,
                          !.dzA_header = FileHeader]
    /\ DriverFrame

D_Estimate ==
    /\ drv.pc = "estimate"
    /\ drv' = [drv EXCEPT !.pc = "close", !.written = @ \cup {"theta", "dzA"}]
    /\ DriverFrame

D_CloseOutputs ==
    /\ drv.pc = "close"
    /\ drv' = [drv EXCEPT
                 !.pc = IF drv.outputSimulatedNetwork THEN "sim" ELSE "cleanup",
                 !.open = @ \ {"theta", "dzA"}]
    /\ DriverFrame

\* the simulated network: fopen unchecked; writing to and closing a null
\* stream is undefined, so the process either dies there or goes on
D_Sim ==
    /\ drv.pc = "sim"
    /\ IF drv.sim_ok
       THEN drv' = [drv EXCEPT !.pc = "cleanup", !.created = @ \cup {"sim"},
                               !.written = @ \cup {"sim"}]
       ELSE \E dies \in BOOLEAN :
               drv' = [drv EXCEPT !.pc = IF dies THEN "crashed" ELSE "cleanup"]
    /\ DriverFrame

D_Cleanup ==
    /\ drv.pc = "cleanup"
    /\ drv' = [drv EXCEPT !.pc = "returned", !.ret = 0,
                          !.g = "freed", !.theta = "freed"]
    /\ DriverFrame

NextDriver ==
    \/ D_OpenArclist
    \/ D_Load
    \/ D_Zones
    \/ D_AttrIndices
    \/ D_DyadicIndices
    \/ D_AllocTheta
    \/ D_OpenTheta
    \/ D_IFDCheck
    \/ D_OpenDzA
    \/ D_Headers
    \/ D_Estimate
    \/ D_CloseOutputs
    \/ D_Sim
    \/ D_Cleanup

SpecDriver == InitDriver /\ [][NextDriver]_vars

(***************************************************************************)
(* do_estimation from the header lines on, with ee_estimate run step by    *)
(* step: the rows of the two output files under the basic sampler and      *)
(* under the IFD sampler                                                   *)
(***************************************************************************)
\* the effects configured: structural, attribute (parameter and attribute
\* name) and dyadic
OutEffectConfigs ==
    { [struct |-> <<"Arc", "Reciprocity">>, attr |-> <<>>, attr_of |-> <<>>,
       dyadic |-> <<>>],
      [struct |-> <<"Reciprocity">>, attr |-> <<>>, attr_of |-> <<>>,
       dyadic |-> <<>>],
      [struct |-> <<"Reciprocity">>, attr |-> <<"Sender">>, attr_of |-> <<"female">>,
       dyadic |-> <<"GeoDistance">>] }

\* the dyads that the IFD sampler tries, and the values ifd_aux_param takes
IFD_DyadsTried == {<<0, 1>>, <<1, 0>>, <<1, 2>>}
ifd_K_Inputs == {RInt(1)}
IFD_AuxValues == {RInt(-1), RZero, RInt(1)}

\* what one proposal of the IFD sampler can do from the outcome so far: an
\* addition at a dyad without arc is accepted or none is, then a deletion of
\* an arc is accepted or none is; without performMove the graph is restored
IFD_Proposal(out, pm) ==
    UNION { { [g |-> IF pm THEN (out.g \cup a) \ d ELSE out.g,
               add |-> IF a = {} THEN out.add
                       ELSE VecAdd(out.add,
                                   CHOOSE cs \in {ChangeStatsOf(out.g, e[1], e[2]) : e \in a} : TRUE),
               del |-> IF d = {} THEN out.del
                       ELSE VecAdd(out.del,
                                   CHOOSE cs \in {ChangeStatsOf(((IF pm THEN out.g \cup a ELSE out.g)) \ d,
                                                                 e[1], e[2]) : e \in d} : TRUE),
               N_add |-> out.N_add + Cardinality(a),
               N_del |-> out.N_del + Cardinality(d)] :
              d \in {{}} \cup {{e} : e \in (IF pm THEN out.g \cup a ELSE out.g)
                                              \cap IFD_DyadsTried} } :
            a \in {{}} \cup {{e} : e \in IFD_DyadsTried \ out.g} }

\* the outcomes of proposals kk .. sampler_m - 1 of a sweep
RECURSIVE IFD_Sweep(_, _, _)
IFD_Sweep(out, pm, kk) ==
    IF kk >= sampler_m THEN {out}
    ELSE UNION {IFD_Sweep(nxt, pm, kk + 1) : nxt \in IFD_Proposal(out, pm)}

\* ifdSampler: the graph, the sums of the change statistics, the acceptance
\* rate, dzArc = N_del - N_add and the new ifd_aux_param
ifdSampler(g, pm, ifd_K, aux) ==
    { [g |-> out.g, add |-> out.add, del |-> out.del,
       acceptance_rate |-> RNorm(out.N_add + out.N_del, 2 * sampler_m),
       dzArc |-> out.N_del - out.N_add,
       ifd_aux_param |-> nxt] :
        out \in IFD_Sweep([g |-> g, add |-> Zeros, del |-> Zeros,
                           N_add |-> 0, N_del |-> 0], pm, 0),
        nxt \in {aux, RAdd(aux, ifd_K), RAdd(aux, RNeg(ifd_K))} \cap IFD_AuxValues }

\* do_estimation has opened its files and checked the configuration
InitOut ==
    /\ useConditionalEstimation = FALSE
    /\ forbidReciprocity = FALSE
    /\ num_nodes = 3
    /\ zone = [v \in NodesOf(num_nodes) |-> 0]
    /\ arcs \in PlainGraphs(num_nodes)
    /\ sampler_m = 1
    /\ alg = NoAlg
    /\ \E cfg \in OutEffectConfigs : \E ifd \in BOOLEAN :
          /\ param_names = cfg.struct
          /\ drv = [pc |-> "headers", useIFDsampler |-> ifd,
                    attr_param_names |-> cfg.attr, attr_names |-> cfg.attr_of,
                    dyadic_param_names |-> cfg.dyadic,
                    theta_header |-> <<>>, dzA_header |-> <<>>]
    /\ ~(drv.useIFDsampler /\ ArcListed)
    /\ InitSamplerFrame

\* the call of ee_estimate, up to the entry of algorithm_S
E_Call ==
    /\ drv.pc = "estimate"
    /\ alg.pc = "off"
    /\ \E Minner \in {1, MaxMinner} : \E all \in BOOLEAN : \E K \in ifd_K_Inputs :
          alg' = [ee_estimate_frame(1, 1, Minner, all, RInt(1), RInt(2))
                    EXCEPT !.ifd_K = K]
    /\ theta' = [l \in 1 .. n_params |-> RZero]
    /\ drv' = [drv EXCEPT !.pc = "in_estimate"]
    /\ UNCHANGED <<graphVars, configVars, spc, performMove, sampler_m, i, j,
                   isDelete, k, accepted, addChangeStats, delChangeStats,
                   acceptance_rate, historyVars>>

\* one iteration of algorithm_S with the IFD sampler
S_IFD_Iteration ==
    /\ alg.pc = "loop"
    /\ alg.t < alg.M1
    /\ useIFDsampler
    /\ \E r \in ifdSampler(arcs, FALSE, alg.ifd_K, alg.ifd_aux_param) :
          LET dzA == [l \in 1 .. n_params |-> r.del[l] - r.add[l]]
              th == [l \in 1 .. n_params |->
                       RAdd(theta[l], S_theta_step(alg.ACA, r.add[l], r.del[l]))]
          IN  /\ arcs' = r.g
              /\ addChangeStats' = r.add
              /\ delChangeStats' = r.del
              /\ acceptance_rate' = r.acceptance_rate
              /\ theta' = th
              /\ alg' = [alg EXCEPT
                           !.t = alg.t + 1,
                           !.ifd_aux_param = r.ifd_aux_param,
                           !.dzArc = r.dzArc,
                           !.D0 = [l \in 1 .. n_params |-> alg.D0[l] + dzA[l] * dzA[l]],
                           !.theta_outfile = Append(alg.theta_outfile,
                               [t |-> PrintedT(alg.t, alg.M1),
                                arc |-> IFD_ArcValue(r.ifd_aux_param,
                                                     alg.arc_correction_val),
                                theta |-> th,
                                acceptance_rate |-> r.acceptance_rate])]
    /\ UNCHANGED <<num_nodes, zone, dupArcs, configVars, spc, performMove,
                   sampler_m, i, j, isDelete, k, accepted, historyVars, drv>>

\* one inner iteration of algorithm_EE with the IFD sampler
EE_IFD_Iteration ==
    /\ alg.pc = "ee_loop"
    /\ alg.touter < alg.Mouter
    /\ alg.tinner < alg.Minner
    /\ useIFDsampler
    /\ \E r \in ifdSampler(arcs, TRUE, alg.ifd_K, alg.ifd_aux_param) :
          LET dz == [l \in 1 .. n_params |->
                       EE_dzA(alg.dzA[l], r.add[l], r.del[l], alg.tinner)]
              th == [l \in 1 .. n_params |->
                       RAdd(theta[l], EE_theta_step(alg.eeD0[l], alg.ACA_EE, dz[l]))]
              out == EE_emits(alg.outputAllSteps, alg.tinner)
          IN  /\ arcs' = r.g
              /\ addChangeStats' = r.add
              /\ delChangeStats' = r.del
              /\ acceptance_rate' = r.acceptance_rate
              /\ theta' = th
              /\ alg' = [alg EXCEPT
                           !.pc = IF alg.tinner + 1 < alg.Minner
                                  THEN "ee_loop" ELSE "ee_outer_end",
                           !.dzA = dz,
                           !.tEE = alg.tEE + 1,
                           !.tinner = alg.tinner + 1,
                           !.ifd_aux_param = r.ifd_aux_param,
                           !.dzArc = r.dzArc,
                           !.thetamatrix = Append(alg.thetamatrix, th),
                           !.theta_outfile =
                               IF out
                               THEN Append(alg.theta_outfile,
                                       [t |-> alg.tEE,
                                        arc |-> IFD_ArcValue(r.ifd_aux_param,
                                                             alg.arc_correction_val),
                                        theta |-> th,
                                        acceptance_rate |-> r.acceptance_rate])
                               ELSE alg.theta_outfile,
                           !.dzA_outfile =
                               IF out
                               THEN Append(alg.dzA_outfile,
                                       [t |-> alg.tEE, arc |-> r.dzArc, dzA |-> dz])
                               ELSE alg.dzA_outfile,
                           !.sweeps = Append(alg.sweeps,
                               [l \in 1 .. n_params |-> r.add[l] - r.del[l]]),
                           !.theta_before = theta]
    /\ UNCHANGED <<num_nodes, zone, dupArcs, configVars, spc, performMove,
                   sampler_m, i, j, isDelete, k, accepted, historyVars, drv>>

\* the return of ee_estimate
E_Return ==
    /\ drv.pc = "in_estimate"
    /\ alg.pc = "ee_done"
    /\ drv' = [drv EXCEPT !.pc = "close"]
    /\ DriverFrame

NextOut ==
    \/ D_Headers
    \/ E_Call
    \/ S_Call
    \/ S_Update
    \/ S_IFD_Iteration
    \/ S_Finish
    \/ EE_Enter
    \/ EE_Call
    \/ EE_Update
    \/ EE_IFD_Iteration
    \/ EE_OuterEnd
    \/ EE_Finish
    \/ SelectUnconditional
    \/ Evaluate
    \/ Decide
    \/ ReturnBasicSampler
    \/ E_Return

SpecOut == InitOut /\ [][NextOut]_vars

(***************************************************************************)
(* Properties of the sampler                                               *)
(***************************************************************************)
\* a proposal has just been decided: i, j, isDelete and arcsBefore are its own
ProposalDone == spc \in {"select", "return", "idle"} /\ lastOutcome # "none"

\* C5: the graph changes only through accepted proposals made with
\* performMove: after a rejected proposal, and after any proposal without
\* performMove, the arc set is the one the proposal started from; a sweep
\* without performMove, and so the whole of algorithm_S, leaves the graph as
\* it was loaded.
C5_GraphChangesOnlyByPerformedMoves ==
    /\ (ProposalDone /\ lastOutcome = "rejected") => arcs = arcsBefore
    /\ (ProposalDone /\ ~performMove) => arcs = arcsBefore
    /\ (~performMove /\ spc \in {"select", "return", "idle"}) => arcs = arcs0
    /\ (phase = "S" /\ spc \in {"select", "return", "idle"}) => arcs = arcs0
    /\ moves = 0 => (spc \in {"select", "return", "idle"} => arcs = arcs0)

\* a deletion was rejected in a sweep that performs moves, on a graph that
\* earlier moves have changed
C5_Witness ==
    /\ ProposalDone /\ lastOutcome = "rejected" /\ isDelete /\ performMove
    /\ arcs # arcs0

\* C6: a proposal is evaluated as a deletion exactly when arc i -> j exists
\* when the dyad is selected, in unconditional and in conditional mode.
C6_DeleteIffArcExists ==
    spc = "eval" => (isDelete <=> isArc(arcs, i, j))

\* C7: insertArc(i, j) is only called with i # j and i -> j absent, removeArc
\* only with i -> j present; the graph never holds a self-loop or a
\* duplicated arc.
C7_ArcCallPreconditions ==
    /\ (spc = "eval" /\ isDelete) => isArc(arcs, i, j)
    /\ spc = "decide" =>
          /\ i # j
          /\ \A acc \in BOOLEAN :
                InsertCalled(isDelete, performMove, acc) => ~isArc(arcs, i, j)
    /\ dupArcs = {}
    /\ \A d \in arcs : d[1] # d[2]

\* C8: an accepted proposal on (i, j) with performMove flips the presence of
\* arc i -> j and leaves every other ordered pair, j -> i included, as it was.
C8_AcceptedMoveToggles ==
    (ProposalDone /\ lastOutcome = "accepted" /\ performMove) =>
        /\ isArc(arcs, i, j) <=> ~isArc(arcsBefore, i, j)
        /\ arcs \ {<<i, j>>} = arcsBefore \ {<<i, j>>}

OutermostWave == {v \in Nodes : \A u \in Nodes : zone[u] <= zone[v]}
OuterArcs(g) == {d \in g : d[1] \in OutermostWave \/ d[2] \in OutermostWave}

\* C9: in conditional estimation every dyad drawn has both endpoints inside
\* the outermost wave's interior (zone < max_zone), so the arcs inside the
\* outermost wave and between it and the wave before stay those of the
\* loaded graph.
C9_OuterWaveFixed ==
    useConditionalEstimation =>
        /\ OuterArcs(arcs) = OuterArcs(arcs0)
        /\ (~forbidReciprocity /\ spc \in {"eval", "decide", "assert_failed"}) =>
              (i \notin OutermostWave /\ j \notin OutermostWave)

\* moves were performed on the inner dyads of a graph that has arcs inside
\* the outermost wave and arcs to the wave before it
C9_Witness ==
    /\ useConditionalEstimation /\ moves > 0 /\ arcs # arcs0
    /\ \E d \in arcs : d[1] \in OutermostWave /\ d[2] \in OutermostWave
    /\ \E d \in arcs : (d[1] \in OutermostWave) # (d[2] \in OutermostWave)

\* the tie between a and b is the last tie of the endpoint in the higher zone
\* to its preceding wave
LastTieToPrecedingWave(g, a, b) ==
    /\ isArcIgnoreDirection(g, a, b)
    /\ \/ (zone[a] = zone[b] + 1 /\ prev_wave_degree(g, a) = 1)
       \/ (zone[b] = zone[a] + 1 /\ prev_wave_degree(g, b) = 1)

ConnectedToPrecedingWave(g) ==
    \A v \in inner_nodes : zone[v] >= 1 => prev_wave_degree(g, v) >= 1

\* C10: in conditional estimation no dyad leaves the selection whose tie is
\* the last one connecting an endpoint to its preceding wave, and every inner
\* node that had a neighbour in its preceding wave in the loaded graph has one
\* in every later state.
C10_LastTieKept ==
    (useConditionalEstimation /\ ConnectedToPrecedingWave(arcs0)) =>
        /\ ConnectedToPrecedingWave(arcs)
        /\ spc \in {"eval", "decide"} => ~LastTieToPrecedingWave(arcsBefore, i, j)

\* moves were performed on a valid snowball sample in which some inner node
\* still hangs on its preceding wave by a single tie
C10_Witness ==
    /\ useConditionalEstimation /\ ConnectedToPrecedingWave(arcs0)
    /\ ProposalDone /\ lastOutcome = "accepted" /\ performMove /\ moves = MaxMoves
    /\ \E v \in inner_nodes : zone[v] >= 1 /\ prev_wave_degree(arcs, v) = 1

(***************************************************************************)
(* Properties of algorithm_S                                               *)
(***************************************************************************)
\* scenario S1: empty graph, the single effect Arc, ACA_S = 1, basic sampler
S1Scenario ==
    /\ alg.pc # "off"
    /\ ~useConditionalEstimation
    /\ arcs0 = {}
    /\ param_names = <<"Arc">>
    /\ alg.ACA = RInt(1)

\* C1 as stated: in scenario S1 theta[Arc] is 0 after every iteration of
\* algorithm_S, whatever the random draws.
C1_ThetaArcStaysZero ==
    S1Scenario =>
        /\ theta[1] = RZero
        /\ \A r \in 1 .. Len(alg.theta_outfile) :
              alg.theta_outfile[r].theta[1] = RZero

\* C1 as the code has it: in scenario S1 the graph stays empty, theta[Arc]
\* is -1 after the first iteration (all proposals are additions and all are
\* accepted at theta = 0), and every later iteration lowers it by exactly 1
\* when at least one proposal was accepted and leaves it alone otherwise.
C1_ThetaArcStepsDown ==
    S1Scenario =>
        /\ arcs = {}
        /\ \A r \in 1 .. Len(alg.theta_outfile) :
              LET row == alg.theta_outfile[r]
                  prev == IF r = 1 THEN RZero ELSE alg.theta_outfile[r - 1].theta[1]
              IN  /\ r = 1 => row.theta[1] = RInt(-1)
                  /\ row.acceptance_rate # RZero => row.theta[1] = RAdd(prev, RInt(-1))
                  /\ row.acceptance_rate = RZero => row.theta[1] = prev

\* scenario S1 run to the end with the largest M1, each iteration having
\* accepted a proposal
C1_Witness ==
    /\ S1Scenario
    /\ alg.pc = "done"
    /\ alg.M1 = MaxM1
    /\ Len(alg.theta_outfile) = MaxM1
    /\ theta[1] = RInt(-MaxM1)

(***************************************************************************)
(* Properties of do_estimation                                             *)
(***************************************************************************)
\* one of the failures do_estimation can meet is set up in the configuration
DriverFailure ==
    \/ ~drv.arclist_ok
    \/ drv.zone_filename /\ ~drv.zone_ok
    \/ ~drv.attr_ok
    \/ ~drv.dyadic_ok
    \/ ~drv.theta_ok
    \/ drv.useIFDsampler /\ ArcListed
    \/ ~drv.dzA_ok
    \/ drv.outputSimulatedNetwork /\ ~drv.sim_ok

\* C2: with useIFDsampler set and Arc among the structural effects,
\* do_estimation returns a non-zero status, and when it returns neither the
\* theta output file nor the dzA output file has been opened.
C2_IFDArcRejectedBeforeOutputs ==
    (drv.pc = "returned" /\ drv.useIFDsampler /\ ArcListed) =>
        /\ drv.ret # 0
        /\ drv.created \cap {"theta", "dzA"} = {}

\* C3: do_estimation returns (it does not die), and the status it returns is
\* non-zero exactly when one of the failures it can meet happened.
C3_NonZeroOnEveryFailure ==
    /\ drv.pc # "crashed"
    /\ drv.pc = "returned" => (drv.ret # 0 <=> DriverFailure)

\* C4: on every error return no file do_estimation opened is still open, and
\* the loaded graph and the theta array have been freed.
C4_ErrorReturnReleasesAll ==
    (drv.pc = "returned" /\ drv.ret # 0) =>
        /\ drv.open = {}
        /\ drv.g # "loaded"
        /\ drv.theta # "allocated"

(***************************************************************************)
(* Further properties of the sampler                                       *)
(***************************************************************************)
NoMutualDyad(g) == \A e \in g : ~isArc(g, e[2], e[1])

\* C11: with forbidReciprocity in unconditional mode no addition is ever
\* evaluated on a dyad (i, j) whose reverse arc j -> i exists, and a graph
\* that had no mutual dyad when loaded has none in any later state.
C11_NoMutualDyadCreated ==
    (forbidReciprocity /\ ~useConditionalEstimation) =>
        /\ (spc \in {"eval", "decide"} /\ ~isDelete) => ~isArc(arcs, j, i)
        /\ NoMutualDyad(arcs0) => NoMutualDyad(arcs)

\* arcs were added under forbidReciprocity to a graph without mutual dyads
C11_Witness ==
    /\ forbidReciprocity
    /\ ~useConditionalEstimation
    /\ arcs0 = {<<0, 1>>}
    /\ performMove
    /\ lastOutcome = "accepted"
    /\ moves = MaxMoves
    /\ Cardinality(arcs) > Cardinality(arcs0)

\* a sweep of basicSampler has returned with every theta entry 0
SweepReturnedAtThetaZero ==
    /\ spc = "idle"
    /\ k = sampler_m
    /\ k > 0
    /\ \A l \in 1 .. n_params : theta[l] = RZero

\* C12 as stated: at theta = 0 the acceptance rate of a sweep is 0.5 in
\* expectation over the acceptance draws.  The rate a sweep returns at
\* theta = 0 does not depend on the draws, so its expectation is its value.
C12_AcceptanceHalfAtThetaZero ==
    SweepReturnedAtThetaZero => acceptance_rate = <<1, 2>>

\* C12 as the code has it: at theta = 0 total is 0, urand() < exp(0) = 1
\* holds for every draw, every proposal is accepted and the acceptance rate
\* returned by the sweep is exactly 1.
C12_AcceptanceOneAtThetaZero ==
    SweepReturnedAtThetaZero => (accepted = sampler_m /\ acceptance_rate = RInt(1))

\* a sweep at theta = 0 that performed its moves has returned
C12_Witness ==
    /\ SweepReturnedAtThetaZero
    /\ performMove
    /\ arcs # arcsBefore
    /\ acceptance_rate = RInt(1)

\* C14: addChangeStats is the sum of the change statistics over the accepted
\* additions of the sweep and delChangeStats the sum over its accepted
\* deletions, both from 0 at entry and never negative.  With the effect Arc
\* (change statistic 1) in first place: the two Arc entries add up to the
\* number of accepted proposals, every entry lies between 0 and the Arc
\* entry of its vector, and right after an accepted proposal on a dyad
\* whose arc was present (absent) when it was selected, the deletions'
\* (additions') Arc entry counts it.
C14_ChangeStatsSums ==
    /\ \A l \in 1 .. n_params :
          /\ 0 <= addChangeStats[l] /\ addChangeStats[l] <= addChangeStats[1]
          /\ 0 <= delChangeStats[l] /\ delChangeStats[l] <= delChangeStats[1]
    /\ spc \in {"select", "eval", "decide", "return"} =>
          addChangeStats[1] + delChangeStats[1] = accepted
    /\ (spc \in {"select", "return"} /\ lastOutcome = "accepted") =>
          IF isArc(arcsBefore, i, j)
          THEN delChangeStats[1] >= 1
          ELSE addChangeStats[1] >= 1

(***************************************************************************)
(* Further properties of algorithm_S                                       *)
(***************************************************************************)
\* C15: when algorithm_S returns, every Dmean[k] = sampler_m / D0[k] is a
\* positive finite number (the divisor D0[k] is never 0), for every
\* M1 >= 0, every graph and every sequence of draws.
C15_DmeanPositiveFinite ==
    alg.pc = "done" =>
        \A l \in 1 .. n_params : alg.Dmean[l][2] # 0 /\ alg.Dmean[l][1] > 0

(***************************************************************************)
(* Properties within ee_estimate                                           *)
(***************************************************************************)
\* total of the proposal just decided, computed as basicSampler computed it
DecidedTotal ==
    TotalOf(theta,
            ChangeStatsOf(GraphForChangeStats(arcsBefore, i, j, isDelete), i, j),
            isDelete)

\* exp(tot) is +infinity or NaN
ExpNonFinite(tot) == RIsNaN(tot) \/ tot = RPosInf

\* C13: a proposal whose acceptance ratio exp(total) is +infinity or NaN is
\* rejected: it is not counted as accepted and leaves the graph as it was.
C13_NonFiniteRejected ==
    (spc \in {"select", "return"} /\ lastOutcome # "none"
        /\ ExpNonFinite(DecidedTotal)) =>
        /\ lastOutcome = "rejected"
        /\ arcs = arcsBefore

InEE == alg.pc \in {"ee_loop", "ee_in_sampler", "ee_outer_end", "ee_done",
                    "ee_assert_failed"}

RECURSIVE SumOfSweeps(_, _)
SumOfSweeps(sw, l) ==
    IF sw = <<>> THEN 0 ELSE sw[1][l] + SumOfSweeps(Tail(sw), l)

\* C16: dzA is zeroed at the entry of algorithm_EE only: after the i-th
\* sweep, counted across all outer and inner iterations, dzA[k] is the sum
\* over the sweeps 1..i of addChangeStats[k] - delChangeStats[k].
C16_dzAAccumulates ==
    InEE => \A l \in 1 .. n_params : alg.dzA[l] = SumOfSweeps(alg.sweeps, l)

\* a sweep of a later outer iteration has added to a dzA that earlier outer
\* iterations left non-zero
C16_Witness ==
    /\ InEE
    /\ alg.touter >= 1
    /\ alg.tinner >= 1
    /\ alg.sweeps[Len(alg.sweeps)][1] # 0
    /\ alg.dzA[1] # alg.sweeps[Len(alg.sweeps)][1]
    /\ alg.dzA[1] # 0

\* an inner iteration of algorithm_EE has just updated theta
EE_JustUpdated ==
    alg.pc = "ee_outer_end" \/ (alg.pc = "ee_loop" /\ alg.tinner >= 1)

\* an iteration of algorithm_S has just updated theta
S_JustUpdated == alg.pc = "loop" /\ alg.t >= 1 /\ spc = "idle"

PositiveFinite(a) == RIsFinite(a) /\ RLess(RZero, a)

EE_OuterEnded == InEE /\ alg.D0_before # <<>>

\* (compC / cv)^2 of effect l at the end of the last outer iteration, with
\* cv = sd / max(|mean|, 0.1): below 1 when cv > compC, above 1 when cv < compC
CompCOverCvSquared(l) ==
    RDiv(RMul(RMul(alg.compC, alg.compC),
              RMul(alg.outer_mean[l], alg.outer_mean[l])),
         alg.outer_var[l])

\* C18 as stated: at the end of an outer iteration D0[k] is shrunk when cv is
\* larger than compC, left unchanged when cv is smaller than compC, and
\* never increased.
C18_D0ShrunkOrKept ==
    EE_OuterEnded =>
        \A l \in 1 .. n_params :
           /\ RLess(CompCOverCvSquared(l), RInt(1)) =>
                 RLess(alg.eeD0[l], alg.D0_before[l])
           /\ RLess(RInt(1), CompCOverCvSquared(l)) =>
                 alg.eeD0[l] = alg.D0_before[l]
           /\ ~RLess(alg.D0_before[l], alg.eeD0[l])

\* C18 as the code has it: when sd(theta[k]) > 1e-10, D0[k] is multiplied by
\* sqrt(compC / cv): it is shrunk when cv > compC, increased when
\* cv < compC and unchanged when cv = compC; when sd(theta[k]) <= 1e-10 it is
\* left unchanged.
C18_D0ScaledTowardsCompC ==
    EE_OuterEnded =>
        \A l \in 1 .. n_params :
           IF SdAboveThreshold(alg.outer_var[l])
           THEN /\ RLess(CompCOverCvSquared(l), RInt(1)) =>
                      RLess(alg.eeD0[l], alg.D0_before[l])
                /\ RLess(RInt(1), CompCOverCvSquared(l)) =>
                      RLess(alg.D0_before[l], alg.eeD0[l])
                /\ CompCOverCvSquared(l) = RInt(1) =>
                      alg.eeD0[l] = alg.D0_before[l]
           ELSE alg.eeD0[l] = alg.D0_before[l]

\* an outer iteration whose cv was below compC has increased D0
C18_Witness ==
    /\ EE_OuterEnded
    /\ SdAboveThreshold(alg.outer_var[1])
    /\ RLess(RInt(1), CompCOverCvSquared(1))
    /\ RLess(alg.D0_before[1], alg.eeD0[1])

\* the rows of the theta stream written by algorithm_S: those before t = 0
S_rows == SelectSeq(alg.theta_outfile, LAMBDA row : row.t < 0)

\* C19: the t column of the theta stream is strictly increasing over the
\* whole task: algorithm_S emits exactly M1 rows bearing t = -M1, ..., -1 in
\* that order, then algorithm_EE emits rows starting at t = 0 with strictly
\* increasing t.
C19_TStrictlyIncreasing ==
    LET f == alg.theta_outfile
    IN  /\ \A q \in 1 .. Len(f) : q <= alg.M1 => f[q].t = q - 1 - alg.M1
        /\ Len(f) > alg.M1 => f[alg.M1 + 1].t = 0
        /\ \A q \in 1 .. Len(f) - 1 : f[q].t < f[q + 1].t
        /\ InEE => Len(S_rows) = alg.M1

\* algorithm_S has written at least two rows and algorithm_EE at least two
C19_Witness ==
    /\ InEE
    /\ alg.M1 >= 2
    /\ Len(alg.theta_outfile) >= alg.M1 + 2
    /\ alg.theta_outfile[1].t = -alg.M1
    /\ alg.theta_outfile[alg.M1 + 2].t > 0

\* the rows of the theta stream written by algorithm_EE: those from t = 0
EE_rows == SelectSeq(alg.theta_outfile, LAMBDA row : row.t >= 0)

\* C20: algorithm_EE emits a row to the theta stream and a row to the dzA
\* stream for exactly the same iterations: with outputAllSteps every one of
\* the Mouter*Minner iterations (t = 0, 1, 2, ...), otherwise only the first
\* inner iteration of each outer iteration (Mouter rows, t = 0, Minner,
\* 2*Minner, ...); the counter t advances by one on every inner iteration
\* whether or not a row is emitted.
C20_RowsOfSameIterations ==
    InEE =>
        LET th == EE_rows
            dz == alg.dzA_outfile
            started == alg.touter + (IF alg.tinner > 0 THEN 1 ELSE 0)
        IN  /\ Len(th) = Len(dz)
            /\ \A q \in 1 .. Len(dz) : th[q].t = dz[q].t
            /\ alg.tEE = alg.touter * alg.Minner + alg.tinner
            /\ alg.outputAllSteps =>
                  /\ Len(dz) = alg.tEE
                  /\ \A q \in 1 .. Len(dz) : dz[q].t = q - 1
            /\ ~alg.outputAllSteps =>
                  /\ Len(dz) = started
                  /\ \A q \in 1 .. Len(dz) : dz[q].t = (q - 1) * alg.Minner
            /\ alg.pc = "ee_done" =>
                  /\ alg.tEE = alg.Mouter * alg.Minner
                  /\ Len(dz) = IF alg.outputAllSteps
                               THEN alg.Mouter * alg.Minner ELSE alg.Mouter

\* algorithm_EE has returned without outputAllSteps, having written one row
\* per outer iteration while t advanced over every inner iteration
C20_Witness ==
    /\ alg.pc = "ee_done"
    /\ ~alg.outputAllSteps
    /\ alg.Mouter >= 2
    /\ alg.Minner >= 2
    /\ Len(alg.dzA_outfile) = alg.Mouter
    /\ alg.dzA_outfile[2].t = alg.Minner
    /\ alg.tEE = alg.Mouter * alg.Minner

(***************************************************************************)
(* Properties of the conditional dyad selection                            *)
(***************************************************************************)
\* the conditional selection is about to draw a pair
CondSelecting == useConditionalEstimation /\ ~forbidReciprocity /\ spc = "select"

\* deleting a -> b takes away the last tie of the endpoint in the higher
\* zone to its preceding wave
DeletionDropsLastTie(g, a, b) ==
    /\ isArc(g, a, b)
    /\ ~isArc(g, b, a)
    /\ LastTieToPrecedingWave(g, a, b)

\* C26: in conditional mode the dyads admitted by the selection are exactly
\* the ordered pairs of distinct inner nodes whose zones differ by at most 1
\* and that are not a deletion dropping the last connection of an endpoint
\* to its preceding wave; in particular an addition of i -> j (i -> j absent)
\* with zone difference at most 1 is never redrawn, even when j -> i exists
\* and the endpoint in the higher zone has prev_wave_degree = 1.
C26_ConditionalAdmission ==
    CondSelecting =>
        \A a \in inner_nodes : \A b \in inner_nodes \ {a} :
           /\ ~CondRedraw(arcs, a, b) <=>
                 (Abs(zone[a] - zone[b]) <= 1 /\ ~DeletionDropsLastTie(arcs, a, b))
           /\ (~isArc(arcs, a, b) /\ Abs(zone[a] - zone[b]) <= 1) =>
                 ~CondRedraw(arcs, a, b)

\* no two inner nodes whose zones differ by more than 1 are joined by an arc
NoArcSkipsAWave(g) ==
    \A a \in inner_nodes : \A b \in inner_nodes :
       Abs(zone[a] - zone[b]) > 1 => ~isArcIgnoreDirection(g, a, b)

\* C27: the assertions of the conditional selection never fail: from a graph
\* in which no two inner nodes with zone difference above 1 are joined by an
\* arc, in every state reached by conditional sweeps both selected nodes have
\* zone < max_zone and no such pair of inner nodes is joined by an arc.
C27_CondAssertionsHold ==
    (useConditionalEstimation /\ ~forbidReciprocity /\ NoArcSkipsAWave(arcs0)) =>
        /\ spc # "assert_failed"
        /\ NoArcSkipsAWave(arcs)
        /\ spc \in {"eval", "decide"} =>
              (zone[i] < max_zone /\ zone[j] < max_zone /\ CondAssertion(arcs, i, j))

\* a pair of inner nodes two waves apart was drawn in a sweep that performs
\* its moves: the assertions held on it and it is drawn again
C27_Witness ==
    /\ useConditionalEstimation /\ ~forbidReciprocity
    /\ NoArcSkipsAWave(arcs0)
    /\ performMove
    /\ spc = "select"
    /\ i # j
    /\ Abs(zone[i] - zone[j]) > 1

\* C30: in conditional mode, whenever there are at least two inner nodes,
\* there is in every state reachable from a valid snowball sample at least
\* one ordered pair of distinct inner nodes that the redraw loop admits, so
\* the loop terminates under fair random draws.
C30_AdmittedPairExists ==
    (CondSelecting /\ ConnectedToPrecedingWave(arcs0) /\ NoArcSkipsAWave(arcs0)
        /\ Cardinality(inner_nodes) >= 2) =>
        \E a \in inner_nodes : \E b \in inner_nodes \ {a} : ~CondRedraw(arcs, a, b)

(***************************************************************************)
(* Properties of algorithm_EE with the basic sampler: the Arc statistic    *)
(* and the flushing of the output files                                    *)
(***************************************************************************)
\* C28: with the Arc effect (the first effect here) and the basic sampler in
\* unconditional mode, after every sweep of algorithm_EE dzA[Arc] is the
\* number of arcs now minus the number of arcs at entry of algorithm_EE
C28_dzAArcIsArcCountChange ==
    (InEE /\ alg.pc # "ee_in_sampler" /\ ~useConditionalEstimation
        /\ IsArcParam(param_names[1])) =>
        alg.dzA[1] = Cardinality(arcs) - Cardinality(alg.arcs_at_entry)

\* two sweeps or more have changed the number of arcs
C28_Witness ==
    /\ InEE /\ alg.pc # "ee_in_sampler" /\ ~useConditionalEstimation
    /\ IsArcParam(param_names[1])
    /\ alg.tEE >= 2
    /\ Cardinality(arcs) # Cardinality(alg.arcs_at_entry)
    /\ alg.dzA[1] # 0

\* rows of a file that are not flushed
Unflushed(file, flushed) == Len(file) - flushed

\* C25: the theta file is flushed after algorithm_S before algorithm_EE,
\* and both files at the end of every outer iteration of algorithm_EE, so
\* the rows an interruption loses are rows written since the end of the
\* previous outer iteration (or since the entry of algorithm_EE)
C25_FlushedEveryOuterIteration ==
    InEE =>
        /\ alg.theta_flushed >= alg.theta_at_outer
        /\ alg.dzA_flushed >= alg.dzA_at_outer
        /\ (alg.pc = "ee_loop" /\ alg.tinner = 0) =>
              /\ Unflushed(alg.theta_outfile, alg.theta_flushed) = 0
              /\ Unflushed(alg.dzA_outfile, alg.dzA_flushed) = 0
        /\ Unflushed(alg.theta_outfile, alg.theta_flushed) <= alg.tinner
        /\ Unflushed(alg.dzA_outfile, alg.dzA_flushed) <= alg.tinner

\* a second outer iteration has begun after rows of algorithm_S and of the
\* first outer iteration were written and flushed
C25_Witness ==
    /\ alg.pc = "ee_loop" /\ alg.touter >= 1 /\ alg.tinner = 0
    /\ alg.M1 > 0
    /\ alg.dzA_flushed > 0
    /\ alg.theta_flushed > alg.dzA_flushed
    /\ alg.theta_flushed = Len(alg.theta_outfile)

(***************************************************************************)
(* Properties of the computation of M1                                     *)
(***************************************************************************)
\* floor(a * b / m) as eight bytes, from the full product
FloorOfProductOver(a, b, m) == uint_div(WideMul(uint_t(a), uint_t(b)), m)

\* C24: the M1 that ee_estimate computes is floor(M1_steps * n / m), also
\* when the product M1_steps * n exceeds 2^32 - 1
C24_M1IsFloor ==
    alg.pc = "M1_computed" =>
        alg.M1 \o <<0, 0, 0, 0>> =
            FloorOfProductOver(alg.M1_steps, alg.num_nodes, sampler_m)

(***************************************************************************)
(* Properties of algorithm_S as a function                                 *)
(***************************************************************************)
\* C23: two runs of algorithm_S on the same graph with the same parameters
\* and the same sequence of draws give the same theta, the same Dmean and
\* the same rows of the theta file, whatever theta held at entry
C23_SDeterministic ==
    alg.pc = "both_returned" =>
        /\ alg.first.theta = alg.second.theta
        /\ alg.first.Dmean = alg.second.Dmean
        /\ alg.first.theta_outfile = alg.second.theta_outfile

\* both runs went through all their iterations, theta moved, and the
\* theta arrays differed at entry
C23_Witness ==
    /\ alg.pc = "both_returned"
    /\ alg.first.complete
    /\ Len(alg.first.theta_outfile) = alg.M1
    /\ alg.M1 >= 2
    /\ alg.first.theta[1] # RZero
    /\ alg.first.theta_outfile[1].theta # alg.first.theta_outfile[2].theta
    /\ alg.theta_first # alg.theta_other
    /\ alg.theta_first[1] # RZero
    /\ alg.theta_other[1] # RZero

(***************************************************************************)
(* Properties of the unconditional selection                               *)
(***************************************************************************)
\* C29: in unconditional mode, under fair draws, the selection of every
\* proposal ends (the change statistics are reached) on every graph of 2
\* nodes or more, also with forbidReciprocity; with fewer than 2 nodes the
\* inner loop on i == j is never left
C29_SelectionTerminates ==
    /\ (spc = "select" /\ ~useConditionalEstimation /\ num_nodes >= 2) ~> (spc = "eval")
    /\ [][(spc = "draw_j" /\ num_nodes < 2) => spc' = "draw_j"]_vars

\* a selection has ended with forbidReciprocity on a deletion whose reverse
\* dyad would have been drawn again
C29_Witness ==
    /\ spc = "eval"
    /\ ~useConditionalEstimation
    /\ forbidReciprocity
    /\ isDelete
    /\ ~isArc(arcs, j, i)
    /\ UncondRedraw(arcs, j, i, UncondIsDelete(arcs, j, i))

(***************************************************************************)
(* Properties of the rows of the output files                              *)
(***************************************************************************)
\* the name of the effect whose value is at place l of theta, in the order
\* in which the samplers and ee_estimate number the effects
EffectColumn(l) ==
    IF l <= n_struct THEN param_names[l]
    ELSE IF l <= n_struct + n_attr
    THEN attr_param_names[l - n_struct] \o "_" \o attr_names[l - n_struct]
    ELSE dyadic_param_names[l - n_struct - n_attr]

\* the columns of a row of the theta file and of the dzA file, field by field
ThetaRowColumns(row) ==
    <<"t">> \o (IF "arc" \in DOMAIN row THEN <<ARC_PARAM_STR>> ELSE <<>>)
        \o [l \in 1 .. Len(row.theta) |-> EffectColumn(l)] \o <<"AcceptanceRate">>
DzARowColumns(row) ==
    <<"t">> \o (IF "arc" \in DOMAIN row THEN <<ARC_PARAM_STR>> ELSE <<>>)
        \o [l \in 1 .. Len(row.dzA) |-> EffectColumn(l)]

InEstimate == drv.pc \in {"in_estimate", "close"} /\ alg.pc # "off"

\* C21: every row of the theta file (of algorithm_S and of algorithm_EE) and
\* of the dzA file has the fields of the header of its file, in the same
\* order: t, the Arc column if and only if the IFD sampler is used, one
\* value per structural, attribute and dyadic effect, and the acceptance
\* rate last in the theta file only
C21_RowsMatchHeader ==
    InEstimate =>
        /\ \A q \in 1 .. Len(alg.theta_outfile) :
              /\ ThetaRowColumns(alg.theta_outfile[q]) = drv.theta_header
              /\ ("arc" \in DOMAIN alg.theta_outfile[q]) <=> drv.useIFDsampler
        /\ \A q \in 1 .. Len(alg.dzA_outfile) :
              /\ DzARowColumns(alg.dzA_outfile[q]) = drv.dzA_header
              /\ ("arc" \in DOMAIN alg.dzA_outfile[q]) <=> drv.useIFDsampler

\* rows of algorithm_S and of algorithm_EE are written, with the IFD sampler
\* and attribute and dyadic effects
C21_Witness ==
    /\ InEstimate
    /\ drv.useIFDsampler
    /\ n_attr > 0 /\ n_dyadic > 0
    /\ Len(alg.theta_outfile) >= 2
    /\ Len(alg.dzA_outfile) >= 1
    /\ alg.theta_outfile[1].t < 0

\* rows of both files under the basic sampler, without the Arc column of the
\* IFD sampler
C21_WitnessBasic ==
    /\ InEstimate
    /\ ~drv.useIFDsampler
    /\ Len(alg.theta_outfile) >= 2
    /\ Len(alg.dzA_outfile) >= 1

\* the last row of the theta file is the row of the iteration just done
LastThetaRowIsOfLastSweep ==
    /\ alg.theta_outfile # <<>>
    /\ \/ alg.pc = "loop" /\ alg.t >= 1
       \/ /\ alg.pc \in {"ee_loop", "ee_outer_end"}
          /\ alg.tEE >= 1
          /\ alg.theta_outfile[Len(alg.theta_outfile)].t = alg.tEE - 1

\* C22: with the IFD sampler, the Arc value of every row of the theta file
\* is ifd_aux - arc_correction(g) on the graph as it is after the sweep of
\* that row, in algorithm_S and in algorithm_EE
C22_ArcValueOfCurrentGraph ==
    (InEstimate /\ drv.useIFDsampler /\ LastThetaRowIsOfLastSweep) =>
        alg.theta_outfile[Len(alg.theta_outfile)].arc =
            IFD_ArcValue(alg.ifd_aux_param, arcCorrection(arcs))

====
